---- MODULE Spec2Model ----
(***************************************************************************)
(* Layout-and-event core of the prism UI toolkit (src/src/layout.rs,       *)
(* src/src/event.rs).                                                      *)
(*                                                                         *)
(* Numbers.  The program computes on f32.  Coordinates of the hit test are *)
(* modelled as integers (the only arithmetic is comparison and             *)
(* subtraction).  Extents of the flexible-space solver are modelled as     *)
(* exact rationals, held as integer multiples of 1/Unit, so that the one   *)
(* division of the solver (leftover / count) is exact; f32 rounding, NaN   *)
(* and infinities are outside the model.                                   *)
(***************************************************************************)
EXTENDS Integers, Sequences, FiniteSets

VARIABLES
    me_children,   \* MouseEvent::pass: the `children: &[Area]` argument
    me_event,      \* MouseEvent::pass: `self`, [position, state]
    me_result,     \* MouseEvent::pass: the returned Vec<Option<Box<dyn Event>>>
    me_pc,         \* "idle", "call" before pass runs, "returned" after
    ue_items,      \* UniformExpand::get: the `sizes: Vec<(f32, f32)>` argument, (min, max) pairs
    ue_max_size,   \* UniformExpand::get: the `max_size` argument (available extent)
    ue_spacing,    \* UniformExpand::get: the `spacing` argument
    ue_sizes,      \* UniformExpand::get: the local `sizes`, (current, max) pairs
    ue_free,       \* UniformExpand::get: the local `free_space`
    ue_result,     \* UniformExpand::get: the returned Vec<f32>
    ue_pc,         \* "idle", "call", "loop" (at the while test), "returned", "panicked"
    sr,            \* the SizeRequest value the caller holds
    sr_size,       \* SizeRequest::get: the `size` argument of the last call
    sr_got,        \* SizeRequest::get: the size the last call returned
    sr_again,      \* SizeRequest::get: what get returned for the size sr_got
    sr_op,         \* the constructor or combinator called last
    sr_pc,         \* "idle", "ready", "got" (get returned), "again", "panicked"
    nw_args,       \* SizeRequest::new: (min_width, min_height, max_width, max_height)
    nw_result,     \* SizeRequest::new: the value returned
    nw_pc,         \* "idle", "call", "returned", "panicked"
    col,           \* the Column: [spacing, offset, size, padding, scroll]
    col_children,  \* Column: the `children: Vec<SizeRequest>` argument of both Layout methods
    col_size,      \* Column::build: the `col_size` argument of the last call
    col_ret,       \* Column: what the last Layout method returned
    col_pc,        \* "idle", "new", "scrolled", "requested", "built", "panicked"
    wr,            \* the Wrap: [w_spacing, h_spacing, offset, padding, width]
    wr_children,   \* Wrap: the `children: Vec<SizeRequest>` argument of both Layout methods
    wr_size,       \* Wrap::build: the `maximum_size` argument of the last call
    wr_ret,        \* Wrap: what the last Layout method returned
    wr_lines,      \* Wrap::build: the `line` vectors handed to flush, in order
    wr_pc,         \* "idle", "new", "requested", "built"
    tr_root,       \* the drawable tree: leaves, and components with a layout and children
    tr_request,    \* Drawable::request_size of the root: the RequestTree returned
    tr_size,       \* Drawable::build of the root: the `size` argument
    tr_sized,      \* Drawable::build of the root: the SizedTree returned
    tr_pc,         \* "idle", "new", "requested", "built", "panicked"
    ev_root,       \* Drawable::event: the drawable the event is handed to
    ev_sized,      \* Drawable::event: the `sized` argument at the root
    ev_event,      \* Drawable::event: the `event` argument at the root
    ev_stack,      \* the calls of Drawable::event under way, innermost last
    ev_log,        \* the calls of Drawable::event, on_event and pass made so far, in order
    ev_pc,         \* "idle", "new", "running", "done"
    ly,            \* the Row, Column or Stack: a record with its type and fields
    ly_children,   \* Layout: the `children: Vec<SizeRequest>` argument of both methods
    ly_size,       \* Layout::build: the size argument of the last call
    ly_ret,        \* Layout: what the last method returned
    ly_pc,         \* "idle", "new", "requested", "built", "panicked"
    dr_sized,      \* draw: the sized tree of the root, each node with the kind of its drawable
    dr_bound,      \* draw: the clip bound handed to the root, (x, y, width, height)
    dr_stack,      \* draw: the composites whose flat_map is under way, innermost last
    dr_log,        \* draw: one record per child visited by a flat_map closure
    dr_out,        \* draw: the (CanvasArea, CanvasItem) pairs emitted so far
    dr_pc,         \* "idle", "new", "running", "done"
    wf,            \* frames: the Wrap instance, [w_spacing, h_spacing, offset, padding, width]
    wf_children,   \* frames: the requests of the children, the same in every call
    wf_log,        \* frames: the calls of request_size and build on the instance so far, in order
    wf_pc,         \* "idle", "live"
    dp,            \* display: the container the caller holds, an Opt, an EitherOr or an Enum
    dp_calls,      \* display: the calls made on the container, Opt::new / EitherOr::new / Enum::new first
    dp_pc,         \* "idle", "live", "panicked"
    bt_mobile,     \* Button: crate::IS_MOBILE, fixed by the target the crate is built for
    bt_event,      \* Button::on_event: the `event` argument
    bt_ret,        \* Button::on_event: the returned Vec<Box<dyn Event>>
    bt_pc,         \* "idle", "call" before on_event runs, "returned" after
    em_flag,       \* Slider / TextInput: the field self.2 (dragging, focused)
    em_mobile,     \* crate::IS_MOBILE, fixed by the target the crate is built for
    em_log,        \* the calls of on_event on the emitter so far: the event and the events returned
    em_pc,         \* "idle", "live"
    ot,            \* an Opt in a tree: [visible, hidden], the fields 1 and 2
    ot_new,        \* the arguments of Opt::new: [item, display]
    ot_request,    \* the RequestTree of the last request_size, None before
    ot_sized,      \* the SizedTree of the last build, None before
    ot_drawn,      \* what the last draw returned
    ot_reached,    \* the drawables the last event reached, with the event each got
    ot_op          \* "idle", or the last call on the Opt

me_vars == <<me_children, me_event, me_result, me_pc>>
ue_vars == <<ue_items, ue_max_size, ue_spacing, ue_sizes, ue_free, ue_result, ue_pc>>
sr_vars == <<sr, sr_size, sr_got, sr_again, sr_op, sr_pc>>
nw_vars == <<nw_args, nw_result, nw_pc>>
col_vars == <<col, col_children, col_size, col_ret, col_pc>>
wr_vars == <<wr, wr_children, wr_size, wr_ret, wr_lines, wr_pc>>
tr_vars == <<tr_root, tr_request, tr_size, tr_sized, tr_pc>>
ev_vars == <<ev_root, ev_sized, ev_event, ev_stack, ev_log, ev_pc>>
ly_vars == <<ly, ly_children, ly_size, ly_ret, ly_pc>>
dr_vars == <<dr_sized, dr_bound, dr_stack, dr_log, dr_out, dr_pc>>
wf_vars == <<wf, wf_children, wf_log, wf_pc>>
dp_vars == <<dp, dp_calls, dp_pc>>
bt_vars == <<bt_mobile, bt_event, bt_ret, bt_pc>>
em_vars == <<em_flag, em_mobile, em_log, em_pc>>
ot_vars == <<ot, ot_new, ot_request, ot_sized, ot_drawn, ot_reached, ot_op>>
vars == <<me_vars, ue_vars, sr_vars, nw_vars, col_vars, wr_vars, tr_vars, ev_vars, ly_vars, dr_vars, wf_vars, dp_vars, bt_vars, em_vars, ot_vars>>

\* what a call of pass, of the solver, of the SizeRequest methods leaves alone
NotPass == <<ue_vars, sr_vars, nw_vars, col_vars, wr_vars, tr_vars, ev_vars, ly_vars, dr_vars, wf_vars, dp_vars, bt_vars, em_vars, ot_vars>>
NotExpand == <<me_vars, sr_vars, nw_vars, col_vars, wr_vars, tr_vars, ev_vars, ly_vars, dr_vars, wf_vars, dp_vars, bt_vars, em_vars, ot_vars>>
NotRequest == <<me_vars, ue_vars, nw_vars, col_vars, wr_vars, tr_vars, ev_vars, ly_vars, dr_vars, wf_vars, dp_vars, bt_vars, em_vars, ot_vars>>
NotNew == <<me_vars, ue_vars, sr_vars, col_vars, wr_vars, tr_vars, ev_vars, ly_vars, dr_vars, wf_vars, dp_vars, bt_vars, em_vars, ot_vars>>
NotColumn == <<me_vars, ue_vars, sr_vars, nw_vars, wr_vars, tr_vars, ev_vars, ly_vars, dr_vars, wf_vars, dp_vars, bt_vars, em_vars, ot_vars>>
NotWrap == <<me_vars, ue_vars, sr_vars, nw_vars, col_vars, tr_vars, ev_vars, ly_vars, dr_vars, wf_vars, dp_vars, bt_vars, em_vars, ot_vars>>
NotTree == <<me_vars, ue_vars, sr_vars, nw_vars, col_vars, wr_vars, ev_vars, ly_vars, dr_vars, wf_vars, dp_vars, bt_vars, em_vars, ot_vars>>
NotEvent == <<me_vars, ue_vars, sr_vars, nw_vars, col_vars, wr_vars, tr_vars, ly_vars, dr_vars, wf_vars, dp_vars, bt_vars, em_vars, ot_vars>>
NotLayout == <<me_vars, ue_vars, sr_vars, nw_vars, col_vars, wr_vars, tr_vars, ev_vars, dr_vars, wf_vars, dp_vars, bt_vars, em_vars, ot_vars>>
NotDraw == <<me_vars, ue_vars, sr_vars, nw_vars, col_vars, wr_vars, tr_vars, ev_vars, ly_vars, wf_vars, dp_vars, bt_vars, em_vars, ot_vars>>
NotFrames == <<me_vars, ue_vars, sr_vars, nw_vars, col_vars, wr_vars, tr_vars, ev_vars, ly_vars, dr_vars, dp_vars, bt_vars, em_vars, ot_vars>>
NotDisplay == <<me_vars, ue_vars, sr_vars, nw_vars, col_vars, wr_vars, tr_vars, ev_vars, ly_vars, dr_vars, wf_vars, bt_vars, em_vars, ot_vars>>
NotButton == <<me_vars, ue_vars, sr_vars, nw_vars, col_vars, wr_vars, tr_vars, ev_vars, ly_vars, dr_vars, wf_vars, dp_vars, em_vars, ot_vars>>
NotEmitter == <<me_vars, ue_vars, sr_vars, nw_vars, col_vars, wr_vars, tr_vars, ev_vars, ly_vars, dr_vars, wf_vars, dp_vars, bt_vars, ot_vars>>
NotOptTree == <<me_vars, ue_vars, sr_vars, nw_vars, col_vars, wr_vars, tr_vars, ev_vars, ly_vars, dr_vars, wf_vars, dp_vars, bt_vars, em_vars>>

---------------------------------------------------------------------------
(* Option<T> *)
None == <<>>
Some(v) == <<v>>
IsSome(o) == o # None
Unwrap(o) == o[1]

RECURSIVE Reverse(_)
Reverse(s) == IF s = <<>> THEN <<>> ELSE Append(Reverse(Tail(s)), Head(s))

---------------------------------------------------------------------------
(* Bounds of the hit-test model *)
MaxChildren == 2
MaxOff == 1
MaxSize == 3

OffsetCoords == {0, MaxOff}
SizeCoords == {0, MaxSize}
PointCoords == 0..MaxSize

(* pub struct Area { offset, size } *)
Areas == [offset : OffsetCoords \X OffsetCoords, size : SizeCoords \X SizeCoords]

(* pub enum MouseState; the scroll amounts of Scroll(f32, f32) are not read by pass *)
MouseStates == {"Pressed", "Moved", "Released", "Scroll"}

(* pub struct MouseEvent { position: Option<(f32, f32)>, state } *)
MouseEvents == [position : {None} \cup {Some(p) : p \in PointCoords \X PointCoords},
                state : MouseStates]

AreaLists == UNION {[1..n -> Areas] : n \in 0..MaxChildren}

---------------------------------------------------------------------------
(* MouseEvent::pass, event.rs 68-85 *)

\* mutant: the test order is the input order (first child wins)
TestOrderForward(children) == children

\* children.iter().rev()
TestOrder(children) == Reverse(children)

\* mutant: the passed flag is not consulted
MayMatchAlways(passed) == TRUE

\* (!passed).then(..)
MayMatch(passed) == ~passed

\* mutant: the upper bounds are not tested
HitTestNoUpper(position, area) ==
    /\ position[1] > area.offset[1]
    /\ position[2] > area.offset[2]

\* mutant: the edges of the Area belong to it
HitTestInclusive(position, area) ==
    /\ position[1] >= area.offset[1]
    /\ position[1] <= area.offset[1] + area.size[1]
    /\ position[2] >= area.offset[2]
    /\ position[2] <= area.offset[2] + area.size[2]

\* the four strict comparisons of the closure
HitTest(position, area) ==
    /\ position[1] > area.offset[1]
    /\ position[1] < area.offset[1] + area.size[1]
    /\ position[2] > area.offset[2]
    /\ position[2] < area.offset[2] + area.size[2]

\* mutant: the position is handed on untranslated
LocalPositionAbsolute(position, offset) == position

\* (position.0 - offset.0, position.1 - offset.1)
LocalPosition(position, offset) ==
    <<position[1] - offset[1], position[2] - offset[2]>>

\* mutant: a child that is not matched gets no event
PassEntryMatchedOnly(position, state) ==
    IF position = None THEN None ELSE Some([position |-> position, state |-> state])

\* Some(Box::new(MouseEvent{position, state: self.state}) as Box<dyn Event>)
PassEntry(position, state) == Some([position |-> position, state |-> state])

\* the map closure over the children in test order, threading `passed`
RECURSIVE PassMap(_, _, _)
PassMap(ev, areas, passed) ==
    IF areas = <<>> THEN <<>>
    ELSE LET area == Head(areas)
             hit == /\ IsSome(ev.position)
                    /\ MayMatch(passed)
                    /\ HitTest(Unwrap(ev.position), area)
             position == IF hit
                         THEN Some(LocalPosition(Unwrap(ev.position), area.offset))
                         ELSE None
         IN  <<PassEntry(position, ev.state)>>
                 \o PassMap(ev, Tail(areas), passed \/ hit)

\* fn pass(self, _ctx, children) -> Vec<Option<Box<dyn Event>>>
MouseEventPass(ev, children) == Reverse(PassMap(ev, TestOrder(children), FALSE))

---------------------------------------------------------------------------
\* no call of pass is under way
IdlePass ==
    /\ me_children = <<>>
    /\ me_event = [position |-> None, state |-> "Moved"]
    /\ me_result = <<>>
    /\ me_pc = "idle"

\* no call of UniformExpand::get is under way
IdleExpand ==
    /\ ue_items = <<>>
    /\ ue_max_size = 0
    /\ ue_spacing = 0
    /\ ue_sizes = <<>>
    /\ ue_free = 0
    /\ ue_result = <<>>
    /\ ue_pc = "idle"

\* no SizeRequest method is under way; the value held is SizeRequest::default()
IdleRequest ==
    /\ sr = [min_width |-> 0, min_height |-> 0, max_width |-> 0, max_height |-> 0]
    /\ sr_size = <<0, 0>>
    /\ sr_got = <<0, 0>>
    /\ sr_again = <<0, 0>>
    /\ sr_op = "default"
    /\ sr_pc = "idle"

\* no direct call of SizeRequest::new is under way
IdleNew ==
    /\ nw_args = <<0, 0, 0, 0>>
    /\ nw_result = <<>>
    /\ nw_pc = "idle"

\* no Column is in use; the value is Column::default()
IdleColumn ==
    /\ col = [spacing |-> 0, offset |-> <<"Start">>, size |-> <<"Fit">>,
              padding |-> <<0, 0, 0, 0>>, scroll |-> <<>>]
    /\ col_children = <<>>
    /\ col_size = <<0, 0>>
    /\ col_ret = <<>>
    /\ col_pc = "idle"

\* no Wrap is in use; the value is Wrap::new(0.0, 0.0)
IdleWrap ==
    /\ wr = [w_spacing |-> 0, h_spacing |-> 0, offset |-> <<"Center">>,
             padding |-> <<0, 0, 0, 0>>, width |-> 0]
    /\ wr_children = <<>>
    /\ wr_size = <<0, 0>>
    /\ wr_ret = <<>>
    /\ wr_lines = <<>>
    /\ wr_pc = "idle"

\* no drawable tree is in use
IdleTree ==
    /\ tr_root = [kind |-> "leaf", size |-> <<0, 0>>]
    /\ tr_request = <<>>
    /\ tr_size = <<0, 0>>
    /\ tr_sized = <<>>
    /\ tr_pc = "idle"

\* no event is being dispatched
IdleEvent ==
    /\ ev_root = [kind |-> "leaf"]
    /\ ev_sized = <<>>
    /\ ev_event = [type |-> "TickEvent"]
    /\ ev_stack = <<>>
    /\ ev_log = <<>>
    /\ ev_pc = "idle"

\* no Row, Column or Stack is in use
IdleLayout ==
    /\ ly = [type |-> "Stack", x_offset |-> <<"Start">>, y_offset |-> <<"Start">>,
             x_size |-> <<"Fit">>, y_size |-> <<"Fit">>, padding |-> <<0, 0, 0, 0>>]
    /\ ly_children = <<>>
    /\ ly_size = <<0, 0>>
    /\ ly_ret = <<>>
    /\ ly_pc = "idle"

\* nothing is being drawn
IdleDraw ==
    /\ dr_sized = [kind |-> "leaf", size |-> <<0, 0>>, branches |-> <<>>]
    /\ dr_bound = <<0, 0, 0, 0>>
    /\ dr_stack = <<>>
    /\ dr_log = <<>>
    /\ dr_out = <<>>
    /\ dr_pc = "idle"

\* no Wrap is followed over several frames
IdleFrames ==
    /\ wf = [w_spacing |-> 0, h_spacing |-> 0, offset |-> <<"Center">>,
             padding |-> <<0, 0, 0, 0>>, width |-> 0]
    /\ wf_children = <<>>
    /\ wf_log = <<>>
    /\ wf_pc = "idle"

\* no display container is in use
IdleDisplay ==
    /\ dp = [visible |-> <<>>, hidden |-> <<>>]
    /\ dp_calls = <<>>
    /\ dp_pc = "idle"

\* no Button emitter is in use
IdleButton ==
    /\ bt_mobile = FALSE
    /\ bt_event = [type |-> "TickEvent"]
    /\ bt_ret = <<>>
    /\ bt_pc = "idle"

\* no Slider or TextInput emitter is in use
IdleEmitter ==
    /\ em_flag = FALSE
    /\ em_mobile = FALSE
    /\ em_log = <<>>
    /\ em_pc = "idle"

\* no Opt is part of a tree
IdleOptTree ==
    /\ ot = [visible |-> <<>>, hidden |-> <<>>]
    /\ ot_new = [item |-> 0, display |-> FALSE]
    /\ ot_request = <<>>
    /\ ot_sized = <<>>
    /\ ot_drawn = <<>>
    /\ ot_reached = <<>>
    /\ ot_op = "idle"

\* the calls of the model run one kind at a time: the others stay idle
AlonePass == IdleExpand /\ IdleRequest /\ IdleNew /\ IdleColumn /\ IdleWrap /\ IdleTree /\ IdleEvent /\ IdleLayout /\ IdleDraw /\ IdleFrames /\ IdleDisplay /\ IdleButton /\ IdleEmitter /\ IdleOptTree
AloneExpand == IdlePass /\ IdleRequest /\ IdleNew /\ IdleColumn /\ IdleWrap /\ IdleTree /\ IdleEvent /\ IdleLayout /\ IdleDraw /\ IdleFrames /\ IdleDisplay /\ IdleButton /\ IdleEmitter /\ IdleOptTree
AloneRequest == IdlePass /\ IdleExpand /\ IdleNew /\ IdleColumn /\ IdleWrap /\ IdleTree /\ IdleEvent /\ IdleLayout /\ IdleDraw /\ IdleFrames /\ IdleDisplay /\ IdleButton /\ IdleEmitter /\ IdleOptTree
AloneNew == IdlePass /\ IdleExpand /\ IdleRequest /\ IdleColumn /\ IdleWrap /\ IdleTree /\ IdleEvent /\ IdleLayout /\ IdleDraw /\ IdleFrames /\ IdleDisplay /\ IdleButton /\ IdleEmitter /\ IdleOptTree
AloneColumn == IdlePass /\ IdleExpand /\ IdleRequest /\ IdleNew /\ IdleWrap /\ IdleTree /\ IdleEvent /\ IdleLayout /\ IdleDraw /\ IdleFrames /\ IdleDisplay /\ IdleButton /\ IdleEmitter /\ IdleOptTree
AloneWrap == IdlePass /\ IdleExpand /\ IdleRequest /\ IdleNew /\ IdleColumn /\ IdleTree /\ IdleEvent /\ IdleLayout /\ IdleDraw /\ IdleFrames /\ IdleDisplay /\ IdleButton /\ IdleEmitter /\ IdleOptTree
AloneTree == IdlePass /\ IdleExpand /\ IdleRequest /\ IdleNew /\ IdleColumn /\ IdleWrap /\ IdleEvent /\ IdleLayout /\ IdleDraw /\ IdleFrames /\ IdleDisplay /\ IdleButton /\ IdleEmitter /\ IdleOptTree
AloneEvent == IdlePass /\ IdleExpand /\ IdleRequest /\ IdleNew /\ IdleColumn /\ IdleWrap /\ IdleTree /\ IdleLayout /\ IdleDraw /\ IdleFrames /\ IdleDisplay /\ IdleButton /\ IdleEmitter /\ IdleOptTree
AloneLayout == IdlePass /\ IdleExpand /\ IdleRequest /\ IdleNew /\ IdleColumn /\ IdleWrap /\ IdleTree /\ IdleEvent /\ IdleDraw /\ IdleFrames /\ IdleDisplay /\ IdleButton /\ IdleEmitter /\ IdleOptTree
AloneDraw == IdlePass /\ IdleExpand /\ IdleRequest /\ IdleNew /\ IdleColumn /\ IdleWrap /\ IdleTree /\ IdleEvent /\ IdleLayout /\ IdleFrames /\ IdleDisplay /\ IdleButton /\ IdleEmitter /\ IdleOptTree
AloneFrames == IdlePass /\ IdleExpand /\ IdleRequest /\ IdleNew /\ IdleColumn /\ IdleWrap /\ IdleTree /\ IdleEvent /\ IdleLayout /\ IdleDraw /\ IdleDisplay /\ IdleButton /\ IdleEmitter /\ IdleOptTree
AloneDisplay == IdlePass /\ IdleExpand /\ IdleRequest /\ IdleNew /\ IdleColumn /\ IdleWrap /\ IdleTree /\ IdleEvent /\ IdleLayout /\ IdleDraw /\ IdleFrames /\ IdleButton /\ IdleEmitter /\ IdleOptTree
AloneButton == IdlePass /\ IdleExpand /\ IdleRequest /\ IdleNew /\ IdleColumn /\ IdleWrap /\ IdleTree /\ IdleEvent /\ IdleLayout /\ IdleDraw /\ IdleFrames /\ IdleDisplay /\ IdleEmitter /\ IdleOptTree
AloneEmitter == IdlePass /\ IdleExpand /\ IdleRequest /\ IdleNew /\ IdleColumn /\ IdleWrap /\ IdleTree /\ IdleEvent /\ IdleLayout /\ IdleDraw /\ IdleFrames /\ IdleDisplay /\ IdleButton /\ IdleOptTree
AloneOptTree == IdlePass /\ IdleExpand /\ IdleRequest /\ IdleNew /\ IdleColumn /\ IdleWrap /\ IdleTree /\ IdleEvent /\ IdleLayout /\ IdleDraw /\ IdleFrames /\ IdleDisplay /\ IdleButton /\ IdleEmitter

\* a call event.pass(ctx, children) about to run, for any event and any children
InitPass ==
    /\ me_children \in AreaLists
    /\ me_event \in MouseEvents
    /\ me_result = <<>>
    /\ me_pc = "call"
    /\ AlonePass

MousePass ==
    /\ me_pc = "call"
    /\ me_result' = MouseEventPass(me_event, me_children)
    /\ me_pc' = "returned"
    /\ UNCHANGED <<me_children, me_event, NotPass>>

NextPass == MousePass

SpecPass == InitPass /\ [][NextPass]_vars

---------------------------------------------------------------------------
(* The events without position, event.rs 87-174 *)

(* Bound of the payloads: the u64 and f32 payloads range over 0..MaxPayload *)
MaxPayload == 1

Payloads == 0..MaxPayload

(* pub enum Key, with two of the named keys and one character *)
Keys == {<<"Named", "Enter">>, <<"Named", "Tab">>, <<"Character", "a">>}

(* pub enum KeyboardState *)
KeyboardStates == {"Pressed", "Repeated", "Released"}

(* pub struct KeyboardEvent { key, state } *)
KeyboardEvents == [type : {"KeyboardEvent"}, key : Keys, state : KeyboardStates]

(* pub struct TickEvent *)
TickEvents == {[type |-> "TickEvent"]}

(* pub enum Button { Pressed(bool), Hover(bool) } *)
ButtonEvents == [type : {"Button"}, variant : {"Pressed", "Hover"}, value : BOOLEAN]

(* pub enum Selectable { Pressed(u64, u64), Selected(bool) } *)
SelectableEvents ==
    [type : {"Selectable"}, variant : {"Pressed"}, value : Payloads \X Payloads]
    \cup [type : {"Selectable"}, variant : {"Selected"}, value : BOOLEAN]

(* pub enum Slider { Start(f32), Moved(f32) } *)
SliderEvents == [type : {"Slider"}, variant : {"Start", "Moved"}, value : Payloads]

(* pub enum TextInput { Hover(bool), Focused(bool) } *)
TextInputEvents == [type : {"TextInput"}, variant : {"Hover", "Focused"}, value : BOOLEAN]

BroadcastEvents ==
    KeyboardEvents \cup TickEvents \cup ButtonEvents \cup SelectableEvents
    \cup SliderEvents \cup TextInputEvents

\* mutant: a child without extent gets no keyboard event
KeyboardEventPassVisible(ev, children) ==
    [i \in DOMAIN children |->
        IF children[i].size[1] = 0 \/ children[i].size[2] = 0 THEN None ELSE Some(ev)]

\* children.iter().map(|_| Some(self.clone() as Box<dyn Event>)).collect()
KeyboardEventPass(ev, children) == [i \in DOMAIN children |-> Some(ev)]

\* children.iter().map(|_| Some(Box::new(*self) as Box<dyn Event>)).collect()
TickEventPass(ev, children) == [i \in DOMAIN children |-> Some(ev)]

\* the same closure as KeyboardEvent::pass, in the four emitter events
ButtonPass(ev, children) == [i \in DOMAIN children |-> Some(ev)]

SelectablePass(ev, children) == [i \in DOMAIN children |-> Some(ev)]

SliderPass(ev, children) == [i \in DOMAIN children |-> Some(ev)]

TextInputPass(ev, children) == [i \in DOMAIN children |-> Some(ev)]

\* a call event.pass(ctx, children) about to run, for any event without
\* position and any children
InitBroadcast ==
    /\ me_children \in AreaLists
    /\ me_event \in BroadcastEvents
    /\ me_result = <<>>
    /\ me_pc = "call"
    /\ AlonePass

KeyboardPass ==
    /\ me_pc = "call"
    /\ me_event.type = "KeyboardEvent"
    /\ me_result' = KeyboardEventPass(me_event, me_children)
    /\ me_pc' = "returned"
    /\ UNCHANGED <<me_children, me_event, NotPass>>

TickPass ==
    /\ me_pc = "call"
    /\ me_event.type = "TickEvent"
    /\ me_result' = TickEventPass(me_event, me_children)
    /\ me_pc' = "returned"
    /\ UNCHANGED <<me_children, me_event, NotPass>>

ButtonEventPass ==
    /\ me_pc = "call"
    /\ me_event.type = "Button"
    /\ me_result' = ButtonPass(me_event, me_children)
    /\ me_pc' = "returned"
    /\ UNCHANGED <<me_children, me_event, NotPass>>

SelectableEventPass ==
    /\ me_pc = "call"
    /\ me_event.type = "Selectable"
    /\ me_result' = SelectablePass(me_event, me_children)
    /\ me_pc' = "returned"
    /\ UNCHANGED <<me_children, me_event, NotPass>>

SliderEventPass ==
    /\ me_pc = "call"
    /\ me_event.type = "Slider"
    /\ me_result' = SliderPass(me_event, me_children)
    /\ me_pc' = "returned"
    /\ UNCHANGED <<me_children, me_event, NotPass>>

TextInputEventPass ==
    /\ me_pc = "call"
    /\ me_event.type = "TextInput"
    /\ me_result' = TextInputPass(me_event, me_children)
    /\ me_pc' = "returned"
    /\ UNCHANGED <<me_children, me_event, NotPass>>

NextBroadcast ==
    \/ KeyboardPass
    \/ TickPass
    \/ ButtonEventPass
    \/ SelectableEventPass
    \/ SliderEventPass
    \/ TextInputEventPass

SpecBroadcast == InitBroadcast /\ [][NextBroadcast]_vars

\* C20: broadcast of the events without position. For KeyboardEvent,
\* TickEvent, Button, Selectable, Slider and TextInput, pass returns one Some
\* entry per child, each equal to the original event, whatever the Areas.
C20_Broadcast ==
    (me_pc = "returned" /\ me_event \in BroadcastEvents) =>
        /\ Len(me_result) = Len(me_children)
        /\ \A i \in DOMAIN me_children : me_result[i] = Some(me_event)

\* a key press reaches a child of zero size and a child with extent alike
C20_Witness ==
    /\ me_pc = "returned"
    /\ me_event \in KeyboardEvents
    /\ Len(me_children) = 2
    /\ me_children[1].size = <<0, 0>>
    /\ me_children[2].size[1] > 0 /\ me_children[2].size[2] > 0
    /\ me_result = <<Some(me_event), Some(me_event)>>

---------------------------------------------------------------------------
(* Properties of MouseEvent::pass *)

\* strict containment of a point in an Area, as the properties read it
Contains(p, a) ==
    /\ a.offset[1] < p[1] /\ p[1] < a.offset[1] + a.size[1]
    /\ a.offset[2] < p[2] /\ p[2] < a.offset[2] + a.size[2]

\* the children whose returned event carries a position
Positioned == {i \in DOMAIN me_result :
                 IsSome(me_result[i]) /\ IsSome(Unwrap(me_result[i]).position)}

\* the children whose Area contains the incoming position
Hits == IF IsSome(me_event.position)
        THEN {i \in DOMAIN me_children : Contains(Unwrap(me_event.position), me_children[i])}
        ELSE {}

Returned == me_pc = "returned"

\* C1: hit-test exclusivity. For a positioned event and any children, at most
\* one of the returned events carries a position.
C1_HitTestExclusive ==
    (Returned /\ IsSome(me_event.position)) => Cardinality(Positioned) <= 1

\* two children both contain the point, and one of them got the position
C1_Witness ==
    /\ Returned
    /\ Cardinality(Hits) >= 2
    /\ \E i \in Hits, j \in Hits : me_children[i] # me_children[j]
    /\ Cardinality(Positioned) = 1

\* C2: topmost wins. The positioned child is the highest-index child whose
\* Area contains the point; when no Area contains it, no child is positioned.
C2_TopmostWins ==
    (Returned /\ IsSome(me_event.position)) =>
        IF Hits = {} THEN Positioned = {}
        ELSE Positioned = {CHOOSE i \in Hits : \A j \in Hits : j <= i}

\* the first child contains the point as well as the last, and the last is positioned
C2_Witness ==
    /\ Returned
    /\ Len(me_children) >= 2
    /\ 1 \in Hits
    /\ Len(me_children) \in Hits
    /\ Positioned = {Len(me_children)}

\* nothing contains the point: every child gets None (also a case of C2)
C2_WitnessMiss ==
    /\ Returned /\ IsSome(me_event.position)
    /\ Len(me_children) >= 1 /\ Hits = {} /\ Positioned = {}

\* C3: coordinate translation. The position delivered to the matched child is
\* (px - ox, py - oy) and lies strictly inside (0,0)..(width,height).
C3_Translation ==
    Returned =>
        \A i \in Positioned :
            LET p == Unwrap(me_event.position)
                a == me_children[i]
                q == Unwrap(Unwrap(me_result[i]).position)
            IN  /\ q = <<p[1] - a.offset[1], p[2] - a.offset[2]>>
                /\ 0 < q[1] /\ q[1] < a.size[1]
                /\ 0 < q[2] /\ q[2] < a.size[2]

\* a matched child whose offset is non-zero and differs between the axes
C3_Witness ==
    /\ Returned
    /\ \E i \in Positioned :
          /\ me_children[i].offset[1] # me_children[i].offset[2]
          /\ Unwrap(Unwrap(me_result[i]).position) # Unwrap(me_event.position)

\* the child pass matched: the highest-index child whose Area contains the point
Matched(i) == i \in Hits /\ \A j \in Hits : j <= i

\* C19: unmatched children still observe the event. pass returns one entry
\* per child, in input order; every entry is Some and carries the MouseState
\* of the incoming event; every child other than the matched one carries
\* position None; when the incoming position is None every child does.
C19_UnmatchedObserve ==
    Returned =>
        /\ Len(me_result) = Len(me_children)
        /\ \A i \in DOMAIN me_result :
              /\ IsSome(me_result[i])
              /\ Unwrap(me_result[i]).state = me_event.state
              /\ ~Matched(i) => Unwrap(me_result[i]).position = None
        /\ me_event.position = None =>
              \A i \in DOMAIN me_result : Unwrap(me_result[i]).position = None

\* a scroll over two children of which only the first contains the point:
\* the second gets the scroll event with position None
C19_Witness ==
    /\ Returned
    /\ Len(me_children) = 2
    /\ me_event.state = "Scroll"
    /\ Hits = {1}
    /\ IsSome(Unwrap(me_result[1]).position)
    /\ me_result[2] = Some([position |-> None, state |-> "Scroll"])

\* an event without position over at least one child
C19_WitnessNoPosition ==
    /\ Returned
    /\ me_event.position = None
    /\ Len(me_children) >= 1
    /\ \A i \in DOMAIN me_result : me_result[i] = Some(me_event)

---------------------------------------------------------------------------
(* UniformExpand::get, layout.rs 220-275: the flexible-space solver *)

(* Bounds of the solver model: items per call, and extents in whole units *)
MaxItems == 3
MaxExtent == 2
MaxAvail == 6
MaxSpacing == 1

RECURSIVE Factorial(_)
Factorial(n) == IF n <= 1 THEN 1 ELSE n * Factorial(n - 1)

\* An extent e is held as the integer e * Unit.  The solver divides once per
\* round, by a count of at most MaxItems items, so every value it computes
\* from whole-unit arguments is a multiple of 1/Unit.
Unit == Factorial(MaxItems)

\* f32::MAX.  The number stands for it: it is larger than every finite extent
\* of the model, and adding one of the model's finite extents to it gives
\* f32::MAX again, as f32 rounding does.
F32Max == 1000000

\* f32::MIN, below every extent of the model
F32Min == -1000000

\* a + b in f32, where either operand may have the magnitude of f32::MAX: a
\* finite extent of the model added to such a value is rounded away, and
\* f32::MAX + f32::MIN is 0.  On the finite extents of the model it is the
\* exact sum.
F32Plus(a, b) ==
    IF (a >= F32Max \/ a <= F32Min) /\ F32Min < b /\ b < F32Max THEN a
    ELSE IF (b >= F32Max \/ b <= F32Min) /\ F32Min < a /\ a < F32Max THEN b
    ELSE a + b

Min(a, b) == IF a <= b THEN a ELSE b
Max(a, b) == IF a >= b THEN a ELSE b

\* the (min, max) pairs a caller passes: min <= max, as SizeRequest keeps it
ItemPairs == UNION {{<<lo * Unit, hi * Unit>> : hi \in lo..MaxExtent} : lo \in 0..MaxExtent}
ItemLists == UNION {[1..n -> ItemPairs] : n \in 0..MaxItems}
AvailExtents == {a * Unit : a \in (-1)..MaxAvail}
Spacings == {sp * Unit : sp \in 0..MaxSpacing}

RECURSIVE SumFirst(_)
\* sizes.iter().fold(0.0, |s, i| s + i.0)
SumFirst(sizes) == IF sizes = <<>> THEN 0 ELSE F32Plus(Head(sizes)[1], SumFirst(Tail(sizes)))

\* (sizes.len() - 1) as f32 * spacing, for a non-empty list
TotalSpacing(n, spacing) == (n - 1) * spacing

\* mutant: the spacing is left out of the minimum size
MinSizeNoSpacing(sizes, spacing) == SumFirst(sizes)

\* let min_size = sizes.iter().fold(..) + spacing
MinSize(sizes, spacing) == F32Plus(SumFirst(sizes), spacing)

\* (max_size - min_size).max(0.0)
FreeSpace(max_size, min_size) == Max(F32Plus(max_size, -min_size), 0)

\* mutant: an item with min == max counts as able to expand
ItemCanExpandOrFull(min, max) == min <= max

\* if min < max { // Item can expand
ItemCanExpand(min, max) == min < max

\* mutant: the arm `Some(w) if w == min` does not look at the item's ceiling
FoldStepNoCeiling(acc, size) ==
    LET min == size[1]
        max == size[2]
        w == Unwrap(acc.me)
    IN  IF ~ItemCanExpand(min, max) THEN acc
        ELSE IF IsSome(acc.me) /\ w < min
             THEN [acc EXCEPT !.ne = Min(acc.ne, min - w)]
        ELSE IF IsSome(acc.me) /\ w = min
             THEN [acc EXCEPT !.c = acc.c + 1]
        ELSE IF IsSome(acc.me) /\ w > min
             THEN [me |-> Some(min), c |-> 1, ne |-> Min(Min(acc.ne, max - min), w - min)]
        ELSE [me |-> Some(min), c |-> 1, ne |-> Min(acc.ne, max - min)]

\* mutant: the arm `Some(w) if w > min` keeps the count of the previous level
FoldStepStaleCount(acc, size) ==
    LET min == size[1]
        max == size[2]
        w == Unwrap(acc.me)
    IN  IF ~ItemCanExpand(min, max) THEN acc
        ELSE IF IsSome(acc.me) /\ w < min
             THEN [acc EXCEPT !.ne = Min(acc.ne, min - w)]
        ELSE IF IsSome(acc.me) /\ w = min
             THEN [acc EXCEPT !.ne = Min(acc.ne, max - min), !.c = acc.c + 1]
        ELSE IF IsSome(acc.me) /\ w > min
             THEN [me |-> Some(min), c |-> acc.c, ne |-> Min(Min(acc.ne, max - min), w - min)]
        ELSE [me |-> Some(min), c |-> 1, ne |-> Min(acc.ne, max - min)]

\* mutant: the arm `Some(w) if w < min` does not stop at the next larger item
FoldStepNoNextMin(acc, size) ==
    LET min == size[1]
        max == size[2]
        w == Unwrap(acc.me)
    IN  IF ~ItemCanExpand(min, max) THEN acc
        ELSE IF IsSome(acc.me) /\ w < min
             THEN acc
        ELSE IF IsSome(acc.me) /\ w = min
             THEN [acc EXCEPT !.ne = Min(acc.ne, max - min), !.c = acc.c + 1]
        ELSE IF IsSome(acc.me) /\ w > min
             THEN [me |-> Some(min), c |-> 1, ne |-> Min(Min(acc.ne, max - min), w - min)]
        ELSE [me |-> Some(min), c |-> 1, ne |-> Min(acc.ne, max - min)]

\* the fold closure |(me, c, ne), size| of the loop body; acc = [me, c, ne]
FoldStep(acc, size) ==
    LET min == size[1]
        max == size[2]
        w == Unwrap(acc.me)
    IN  IF ~ItemCanExpand(min, max) THEN acc
        ELSE IF IsSome(acc.me) /\ w < min
             THEN [acc EXCEPT !.ne = Min(acc.ne, min - w)]
        ELSE IF IsSome(acc.me) /\ w = min
             THEN [acc EXCEPT !.ne = Min(acc.ne, max - min), !.c = acc.c + 1]
        ELSE IF IsSome(acc.me) /\ w > min
             THEN [me |-> Some(min), c |-> 1, ne |-> Min(Min(acc.ne, max - min), w - min)]
        ELSE [me |-> Some(min), c |-> 1, ne |-> Min(acc.ne, max - min)]

RECURSIVE FoldFrom(_, _)
FoldFrom(sizes, acc) ==
    IF sizes = <<>> THEN acc ELSE FoldFrom(Tail(sizes), FoldStep(acc, Head(sizes)))

\* let (min_exp, count, next) = sizes.iter().fold((None, 0.0, free_space), ..)
Fold(sizes, free_space) == FoldFrom(sizes, [me |-> None, c |-> 0, ne |-> free_space])

\* mutant: the step is not capped by the free space
ExpandUncapped(next, count, free_space) == next * count

\* let expand = (next * count).min(free_space)
Expand(next, count, free_space) == Min(next * count, free_space)

\* let expand = expand / count
Share(expand, count) == expand \div count

\* sizes.iter_mut().for_each(|size| if size.0 < size.1 && size.0 == min_exp { size.0 += expand })
Grow(sizes, min_exp, share) ==
    [i \in DOMAIN sizes |->
        IF sizes[i][1] < sizes[i][2] /\ sizes[i][1] = min_exp
        THEN <<F32Plus(sizes[i][1], share), sizes[i][2]>>
        ELSE sizes[i]]

\* sizes.into_iter().map(|s| s.0).collect()
Firsts(sizes) == [i \in DOMAIN sizes |-> sizes[i][1]]

---------------------------------------------------------------------------
\* a call UniformExpand::get(sizes, max_size, spacing) about to run
InitExpand ==
    /\ ue_items \in ItemLists
    /\ ue_max_size \in AvailExtents
    /\ ue_spacing \in Spacings
    /\ ue_sizes = <<>>
    /\ ue_free = 0
    /\ ue_result = <<>>
    /\ ue_pc = "call"
    /\ AloneExpand

\* lines 225-230 for a non-empty list: up to the first test of the while loop
UEEnter ==
    /\ ue_pc = "call"
    /\ Len(ue_items) >= 1
    /\ LET spacing == TotalSpacing(Len(ue_items), ue_spacing)
           min_size == MinSize(ue_items, spacing)
       IN  /\ ue_sizes' = ue_items
           /\ ue_free' = FreeSpace(ue_max_size, min_size)
    /\ ue_pc' = "loop"
    /\ UNCHANGED <<ue_items, ue_max_size, ue_spacing, ue_result, NotExpand>>

\* line 225 for an empty list: `sizes.len() - 1` underflows usize.  A build with
\* overflow checks panics there.
UEEnterEmptyPanic ==
    /\ ue_pc = "call"
    /\ Len(ue_items) = 0
    /\ ue_pc' = "panicked"
    /\ UNCHANGED <<ue_items, ue_max_size, ue_spacing, ue_sizes, ue_free, ue_result, NotExpand>>

\* line 225 for an empty list in a build without overflow checks: the count
\* wraps to usize::MAX, so the total spacing is 0 for spacing 0 and exceeds
\* every extent for spacing > 0 (free_space is then 0).
UEEnterEmptyWrap ==
    /\ ue_pc = "call"
    /\ Len(ue_items) = 0
    /\ ue_sizes' = ue_items
    /\ ue_free' = IF ue_spacing > 0 THEN 0 ELSE FreeSpace(ue_max_size, 0)
    /\ ue_pc' = "loop"
    /\ UNCHANGED <<ue_items, ue_max_size, ue_spacing, ue_result, NotExpand>>

\* one iteration of `while free_space > 0.0` that reaches its end, lines 231-271
UEIter ==
    /\ ue_pc = "loop"
    /\ ue_free > 0
    /\ LET f == Fold(ue_sizes, ue_free)
       IN  /\ IsSome(f.me)
           /\ LET expand == Expand(f.ne, f.c, ue_free)
              IN  /\ ue_free' = F32Plus(ue_free, -expand)
                  /\ ue_sizes' = Grow(ue_sizes, Unwrap(f.me), Share(expand, f.c))
    /\ UNCHANGED <<ue_items, ue_max_size, ue_spacing, ue_result, ue_pc, NotExpand>>

\* `if min_exp.is_none() { break; }`, line 259, then the return of line 273
UEBreak ==
    /\ ue_pc = "loop"
    /\ ue_free > 0
    /\ ~IsSome(Fold(ue_sizes, ue_free).me)
    /\ ue_result' = Firsts(ue_sizes)
    /\ ue_pc' = "returned"
    /\ UNCHANGED <<ue_items, ue_max_size, ue_spacing, ue_sizes, ue_free, NotExpand>>

\* the while test fails, line 231, then the return of line 273
UEExit ==
    /\ ue_pc = "loop"
    /\ ~(ue_free > 0)
    /\ ue_result' = Firsts(ue_sizes)
    /\ ue_pc' = "returned"
    /\ UNCHANGED <<ue_items, ue_max_size, ue_spacing, ue_sizes, ue_free, NotExpand>>

NextExpand ==
    \/ UEEnter
    \/ UEEnterEmptyPanic
    \/ UEEnterEmptyWrap
    \/ UEIter
    \/ UEBreak
    \/ UEExit

SpecExpand == InitExpand /\ [][NextExpand]_vars

\* the calls on lists of fewer than MaxItems items
InitExpandShort ==
    /\ InitExpand
    /\ Len(ue_items) < MaxItems

\* the loop is sequential code: a step that can be taken is taken
SpecExpandFair == InitExpandShort /\ [][NextExpand]_vars /\ WF_vars(NextExpand)

\* the (min, max) pair of a request made by Size::Fill over no item, as a
\* Stack without children makes it: the fold of max starts from f32::MIN
FillOfNone == <<F32Min, F32Max>>

\* the lists of fewer than MaxItems items, one of which may be FillOfNone
ItemListsWithFill ==
    LET short == {l \in ItemLists : Len(l) < MaxItems}
    IN  short \cup UNION {{[l EXCEPT ![i] = FillOfNone] : i \in DOMAIN l} : l \in short}

\* a call of UniformExpand::get by a Row or Column that may hold such a child
InitExpandFill ==
    /\ ue_items \in ItemListsWithFill
    /\ ue_max_size \in AvailExtents
    /\ ue_spacing \in Spacings
    /\ ue_sizes = <<>>
    /\ ue_free = 0
    /\ ue_result = <<>>
    /\ ue_pc = "call"
    /\ AloneExpand

SpecExpandFillFair == InitExpandFill /\ [][NextExpand]_vars /\ WF_vars(NextExpand)

---------------------------------------------------------------------------
(* Properties of UniformExpand::get *)

RECURSIVE SumSeq(_)
SumSeq(q) == IF q = <<>> THEN 0 ELSE Head(q) + SumSeq(Tail(q))

UEReturned == ue_pc = "returned"
ItemCount == Len(ue_items)
SumOfMins == SumSeq([i \in DOMAIN ue_items |-> ue_items[i][1]])
SumOfMaxes == SumSeq([i \in DOMAIN ue_items |-> ue_items[i][2]])
SpacingTotal == ue_spacing * (ItemCount - 1)
SumOfResult == SumSeq(ue_result)

\* every division of the solver is exact in the model's representation
ShareIsExact ==
    (ue_pc = "loop" /\ ue_free > 0 /\ IsSome(Fold(ue_sizes, ue_free).me)) =>
        LET f == Fold(ue_sizes, ue_free)
        IN  f.c >= 1 /\ Expand(f.ne, f.c, ue_free) % f.c = 0

\* C4: solver bounds. One size per item, in input order, each within the
\* item's [min, max].
C4_SolverBounds ==
    UEReturned =>
        /\ Len(ue_result) = Len(ue_items)
        /\ \A i \in DOMAIN ue_items :
              ue_items[i][1] <= ue_result[i] /\ ue_result[i] <= ue_items[i][2]

\* one call leaves an item at its minimum, stops one at its maximum and ends
\* one strictly between
C4_Witness ==
    /\ UEReturned
    /\ \E i \in DOMAIN ue_items : ue_items[i][1] < ue_items[i][2] /\ ue_result[i] = ue_items[i][2]
    /\ \E i \in DOMAIN ue_items : ue_items[i][1] < ue_result[i] /\ ue_result[i] < ue_items[i][2]
    /\ \E i \in DOMAIN ue_items : ue_items[i][1] = ue_items[i][2]

C6_NoGrowthWithoutRoom ==
    (UEReturned /\ ItemCount >= 1 /\ SumOfMins + SpacingTotal >= ue_max_size) =>
        \A i \in DOMAIN ue_items : ue_result[i] = ue_items[i][1]

\* growable items, minimums below the available extent, but the spacing uses
\* up the room
C6_Witness ==
    /\ UEReturned
    /\ ItemCount >= 2
    /\ SumOfMins < ue_max_size
    /\ SumOfMins + SpacingTotal >= ue_max_size
    /\ \A i \in DOMAIN ue_items : ue_items[i][1] < ue_items[i][2]
    /\ \A i \in DOMAIN ue_items : ue_result[i] = ue_items[i][1]

\* C7: maximal use of space. When the minimums and the spacing fit, the sizes
\* plus the spacing add up to the available extent, or to the sum of the
\* maximums plus the spacing when that is smaller.
C7_MaximalUse ==
    (UEReturned /\ ItemCount >= 1 /\ ue_max_size >= SumOfMins + SpacingTotal) =>
        SumOfResult + SpacingTotal = Min(ue_max_size, SumOfMaxes + SpacingTotal)

\* every item reached its maximum and a remainder is left undistributed
C7_Witness ==
    /\ UEReturned
    /\ ItemCount >= 2
    /\ SumOfResult > SumOfMins
    /\ SumOfResult = SumOfMaxes
    /\ ue_free > 0
    /\ SumOfResult + SpacingTotal < ue_max_size

\* the leftover ran out before the items reached their maximums
C7_WitnessExhausted ==
    /\ UEReturned
    /\ ItemCount >= 2
    /\ SumOfResult > SumOfMins
    /\ SumOfResult < SumOfMaxes
    /\ SumOfResult + SpacingTotal = ue_max_size

\* C8: smallest-first equalisation. An item that was grown does not end larger
\* than an item that still has room; two items with equal minimums that both
\* end below their maximums get equal sizes, wherever they stand in the list.
C8_SmallestFirst ==
    UEReturned =>
        \A i \in DOMAIN ue_items, j \in DOMAIN ue_items :
            /\ (ue_result[j] > ue_items[j][1] /\ ue_result[i] < ue_items[i][2])
                   => ue_result[j] <= ue_result[i]
            /\ (/\ ue_items[i][1] = ue_items[j][1]
                /\ ue_result[i] < ue_items[i][2]
                /\ ue_result[j] < ue_items[j][2])
                   => ue_result[i] = ue_result[j]

\* a later, smaller item was grown up to an earlier, larger one that has room,
\* and two grown items with room ended equal
C8_Witness ==
    /\ UEReturned
    /\ \E i \in DOMAIN ue_items, j \in DOMAIN ue_items :
          /\ i < j
          /\ ue_items[j][1] < ue_items[i][1]
          /\ ue_result[j] > ue_items[j][1]
          /\ ue_result[i] < ue_items[i][2]
          /\ ue_result[j] = ue_result[i]

\* the loop stops at the while test or at the break
LoopStops(sizes, free_space) ==
    \/ free_space <= 0
    \/ \A i \in DOMAIN sizes : ~(sizes[i][1] < sizes[i][2])

\* C9: solver termination. A call on a non-empty list returns; at the loop
\* test the loop stops exactly when the leftover is zero or no item has
\* cur < max; an iteration that does not stop strictly decreases the leftover,
\* which stays non-negative.
C9_Termination ==
    /\ (ue_pc = "call" /\ ItemCount >= 1) ~> UEReturned
    /\ [][ue_pc = "loop" =>
            /\ (ue_pc' = "returned") <=> LoopStops(ue_sizes, ue_free)
            /\ (ue_pc' = "loop") => (ue_free' < ue_free /\ ue_free' >= 0)]_vars

\* C9, the step alone: at the loop test, an iteration that does not stop
\* leaves a smaller leftover and changes an item.  Where it fails the next
\* iteration starts from the same values, and so does every later one.
C9_IterationAdvances ==
    (ue_pc = "loop" /\ ue_free > 0 /\ IsSome(Fold(ue_sizes, ue_free).me)) =>
        LET f == Fold(ue_sizes, ue_free)
            expand == Expand(f.ne, f.c, ue_free)
        IN  /\ F32Plus(ue_free, -expand) < ue_free
            /\ Grow(ue_sizes, Unwrap(f.me), Share(expand, f.c)) # ue_sizes

\* a call that returned after the leftover ran out, with one item stopped at
\* its maximum on the way and another grown on beyond that item's size
C9_Witness ==
    /\ UEReturned
    /\ ue_free = 0
    /\ \E i \in DOMAIN ue_items, j \in DOMAIN ue_items :
          /\ ue_items[i][1] < ue_items[i][2] /\ ue_result[i] = ue_items[i][2]
          /\ ue_items[j][1] <= ue_items[i][1]
          /\ ue_result[j] > ue_result[i]

---------------------------------------------------------------------------
(* SizeRequest, layout.rs 25-99 *)

(* Bound of the SizeRequest model: finite extents range over -MaxDim..MaxDim *)
MaxDim == 1

FiniteExtents == (-MaxDim)..MaxDim
Extents == FiniteExtents \cup {F32Max}

\* f32 addition of a finite extent
FAdd(a, w) == IF a = F32Max THEN F32Max ELSE a + w

\* mutant: only the widths are checked
SizeRequestNewWidthOnly(min_width, min_height, max_width, max_height) ==
    IF min_width > max_width THEN None
    ELSE Some([min_width |-> min_width, min_height |-> min_height,
               max_width |-> max_width, max_height |-> max_height])

\* pub fn new: None stands for the panic
SizeRequestNew(min_width, min_height, max_width, max_height) ==
    IF min_width > max_width THEN None
    ELSE IF min_height > max_height THEN None
    ELSE Some([min_width |-> min_width, min_height |-> min_height,
               max_width |-> max_width, max_height |-> max_height])

\* mutant: the size is stored as the minimum only
SizeRequestFixedMinOnly(size) ==
    [min_width |-> size[1], min_height |-> size[2], max_width |-> 0, max_height |-> 0]

\* pub fn fixed
SizeRequestFixed(size) ==
    [min_width |-> size[1], min_height |-> size[2],
     max_width |-> size[1], max_height |-> size[2]]

\* pub fn fill
SizeRequestFill ==
    [min_width |-> 0, min_height |-> 0, max_width |-> F32Max, max_height |-> F32Max]

\* #[derive(Default)]
SizeRequestDefault ==
    [min_width |-> 0, min_height |-> 0, max_width |-> 0, max_height |-> 0]

\* mutant: the proposed extent is not raised to the minimum
ClampNoFloor(lo, hi, v) == Min(hi, v)

\* mutant: min and max exchanged, self.max_width.max(self.min_width.min(size.0))
ClampOpsSwapped(lo, hi, v) == Max(hi, Min(lo, v))

\* self.max_width.min(self.min_width.max(size.0)), one axis of get
Clamp(lo, hi, v) == Min(hi, Max(lo, v))

\* mutant: only the width is brought within the request
SizeRequestGetWidthOnly(r, size) ==
    <<Clamp(r.min_width, r.max_width, size[1]), size[2]>>

\* pub fn get
SizeRequestGet(r, size) ==
    <<Clamp(r.min_width, r.max_width, size[1]),
      Clamp(r.min_height, r.max_height, size[2])>>

\* pub fn add_width
SizeRequestAddWidth(r, w) ==
    SizeRequestNew(FAdd(r.min_width, w), r.min_height, FAdd(r.max_width, w), r.max_height)

\* pub fn add_height
SizeRequestAddHeight(r, h) ==
    SizeRequestNew(r.min_width, FAdd(r.min_height, h), r.max_width, FAdd(r.max_height, h))

\* pub fn add: self.add_width(w).add_height(h)
SizeRequestAdd(r, w, h) ==
    LET aw == SizeRequestAddWidth(r, w)
    IN  IF aw = None THEN None ELSE SizeRequestAddHeight(Unwrap(aw), h)

\* pub fn remove_height
SizeRequestRemoveHeight(r, h) ==
    SizeRequestNew(r.min_width, FAdd(r.min_height, -h), r.max_width, FAdd(r.max_height, -h))

\* pub fn max
SizeRequestMax(r, other) ==
    SizeRequestNew(Max(r.min_width, other.min_width), Max(r.min_height, other.min_height),
                   Max(r.max_width, other.max_width), Max(r.max_height, other.max_height))

\* the model keeps the fields of a request within Extents
InExtents(r) ==
    /\ r.min_width \in Extents /\ r.min_height \in Extents
    /\ r.max_width \in Extents /\ r.max_height \in Extents

\* the requests SizeRequest::new returns: what a caller can pass as `other`
NewRequests ==
    {Unwrap(o) : o \in {SizeRequestNew(a, b, c, d) :
                          a \in Extents, b \in Extents, c \in Extents, d \in Extents} \ {None}}

---------------------------------------------------------------------------
\* a caller holding SizeRequest::default()
InitRequest ==
    /\ sr = SizeRequestDefault
    /\ sr_size = <<0, 0>>
    /\ sr_got = <<0, 0>>
    /\ sr_again = <<0, 0>>
    /\ sr_op = "default"
    /\ sr_pc = "ready"
    /\ AloneRequest

\* the caller takes the value a constructor or combinator returned, or the
\* panic of SizeRequest::new ends the program
Take(op, result) ==
    /\ IF result = None
       THEN sr_pc' = "panicked" /\ UNCHANGED sr
       ELSE InExtents(Unwrap(result)) /\ sr' = Unwrap(result) /\ UNCHANGED sr_pc
    /\ sr_op' = op
    /\ UNCHANGED <<sr_size, sr_got, sr_again, NotRequest>>

SRNew ==
    /\ sr_pc = "ready"
    /\ \E a \in Extents, b \in Extents, c \in Extents, d \in Extents :
          Take("new", SizeRequestNew(a, b, c, d))

SRFixed ==
    /\ sr_pc = "ready"
    /\ \E w \in Extents, h \in Extents : Take("fixed", Some(SizeRequestFixed(<<w, h>>)))

SRFill ==
    /\ sr_pc = "ready"
    /\ Take("fill", Some(SizeRequestFill))

SRDefault ==
    /\ sr_pc = "ready"
    /\ Take("default", Some(SizeRequestDefault))

SRAdd ==
    /\ sr_pc = "ready"
    /\ \E w \in FiniteExtents, h \in FiniteExtents : Take("add", SizeRequestAdd(sr, w, h))

SRAddWidth ==
    /\ sr_pc = "ready"
    /\ \E w \in FiniteExtents : Take("add_width", SizeRequestAddWidth(sr, w))

SRAddHeight ==
    /\ sr_pc = "ready"
    /\ \E h \in FiniteExtents : Take("add_height", SizeRequestAddHeight(sr, h))

SRRemoveHeight ==
    /\ sr_pc = "ready"
    /\ \E h \in FiniteExtents : Take("remove_height", SizeRequestRemoveHeight(sr, h))

SRMax ==
    /\ sr_pc = "ready"
    /\ \E other \in NewRequests : Take("max", SizeRequestMax(sr, other))

\* r.get(size) on the value held, for any proposed size
SRGet ==
    /\ sr_pc = "ready"
    /\ \E w \in Extents, h \in Extents :
          /\ sr_size' = <<w, h>>
          /\ sr_got' = SizeRequestGet(sr, <<w, h>>)
    /\ sr_pc' = "got"
    /\ UNCHANGED <<sr, sr_again, sr_op, NotRequest>>

\* r.get applied to the size the first call returned
SRGetAgain ==
    /\ sr_pc = "got"
    /\ sr_again' = SizeRequestGet(sr, sr_got)
    /\ sr_pc' = "again"
    /\ UNCHANGED <<sr, sr_size, sr_got, sr_op, NotRequest>>

NextRequest ==
    \/ SRNew
    \/ SRFixed
    \/ SRFill
    \/ SRDefault
    \/ SRAdd
    \/ SRAddWidth
    \/ SRAddHeight
    \/ SRRemoveHeight
    \/ SRMax
    \/ SRGet
    \/ SRGetAgain

SpecRequest == InitRequest /\ [][NextRequest]_vars

---------------------------------------------------------------------------
\* a direct call SizeRequest::new(min_width, min_height, max_width, max_height)
\* about to run, for any four extents
InitNew ==
    /\ nw_args \in Extents \X Extents \X Extents \X Extents
    /\ nw_result = None
    /\ nw_pc = "call"
    /\ AloneNew

\* the call returns Some(request), or panics and returns nothing
NewCall ==
    /\ nw_pc = "call"
    /\ LET result == SizeRequestNew(nw_args[1], nw_args[2], nw_args[3], nw_args[4])
       IN  IF result = None
           THEN nw_pc' = "panicked" /\ UNCHANGED nw_result
           ELSE nw_pc' = "returned" /\ nw_result' = result
    /\ UNCHANGED <<nw_args, NotNew>>

NextNew == NewCall

SpecNew == InitNew /\ [][NextNew]_vars

---------------------------------------------------------------------------
(* Properties of SizeRequest *)

\* C10: clamp range. For every request obtained through the constructors and
\* combinators and every proposed size, get returns a width within
\* [min_width, max_width] and a height within [min_height, max_height].
C10_ClampRange ==
    sr_pc \in {"got", "again"} =>
        /\ sr.min_width <= sr_got[1] /\ sr_got[1] <= sr.max_width
        /\ sr.min_height <= sr_got[2] /\ sr_got[2] <= sr.max_height

\* a request with room on both axes clamps a size that is too narrow and too
\* tall: the width is raised to the minimum, the height cut to the maximum
C10_Witness ==
    /\ sr_pc \in {"got", "again"}
    /\ sr.min_width < sr.max_width /\ sr.min_height < sr.max_height
    /\ sr_size[1] < sr.min_width /\ sr_size[2] > sr.max_height
    /\ sr_got = <<sr.min_width, sr.max_height>>

\* the proposed size lies within the bounds of the request on both axes
WithinBounds(r, size) ==
    /\ r.min_width <= size[1] /\ size[1] <= r.max_width
    /\ r.min_height <= size[2] /\ size[2] <= r.max_height

\* C11: clamp idempotence. For every request r and size s,
\* r.get(r.get(s)) = r.get(s), and r.get(s) = s whenever s lies within the
\* bounds of r on both axes.
C11_ClampIdempotent ==
    /\ sr_pc = "again" => sr_again = sr_got
    /\ (sr_pc \in {"got", "again"} /\ WithinBounds(sr, sr_size)) => sr_got = sr_size

\* get changed a size outside the bounds on both axes, and the second get
\* returned what the first did
C11_Witness ==
    /\ sr_pc = "again"
    /\ sr.min_width < sr.max_width
    /\ sr_size[1] > sr.max_width /\ sr_size[2] < sr.min_height
    /\ sr_got # sr_size
    /\ sr_again = sr_got

\* get returned a size strictly inside the bounds as it was
C11_WitnessWithin ==
    /\ sr_pc = "got"
    /\ sr.min_width < sr_size[1] /\ sr_size[1] < sr.max_width
    /\ sr.min_height < sr_size[2] /\ sr_size[2] < sr.max_height
    /\ sr_got = sr_size

\* C12: every SizeRequest obtained by any sequence of new, fixed, fill,
\* Default, add, add_width, add_height, remove_height and max has
\* min_width <= max_width and min_height <= max_height.
C12_MinAtMostMax ==
    /\ sr.min_width <= sr.max_width
    /\ sr.min_height <= sr.max_height

\* fixed, which does not go through the check of new, returned a request of
\* a size that is not zero
C12_Witness ==
    /\ sr_op = "fixed"
    /\ sr_pc = "ready"
    /\ sr.min_width > 0 /\ sr.min_height > 0
    /\ sr.max_width = sr.min_width /\ sr.max_height = sr.min_height

\* a combinator moved a request with room below zero
C12_WitnessCombined ==
    /\ sr_op = "remove_height"
    /\ sr_pc = "ready"
    /\ sr.min_height < 0 /\ sr.min_height < sr.max_height

\* C13: SizeRequest::new panics and returns no value whenever
\* min_width > max_width or min_height > max_height, and otherwise returns
\* a request holding the four arguments as they were given.
C13_NewFailsFast ==
    nw_pc # "call" /\ nw_pc # "idle" =>
        IF nw_args[1] > nw_args[3] \/ nw_args[2] > nw_args[4]
        THEN nw_pc = "panicked" /\ nw_result = None
        ELSE /\ nw_pc = "returned"
             /\ nw_result = Some([min_width |-> nw_args[1], min_height |-> nw_args[2],
                                  max_width |-> nw_args[3], max_height |-> nw_args[4]])

\* the widths are in order, the heights are not: the call panicked
C13_Witness ==
    /\ nw_pc = "panicked"
    /\ nw_args[1] < nw_args[3]
    /\ nw_args[2] > nw_args[4]

\* both axes in order, with room: the call returned
C13_WitnessReturned ==
    /\ nw_pc = "returned"
    /\ nw_args[1] < nw_args[3] /\ nw_args[2] < nw_args[4]
    /\ IsSome(nw_result)

---------------------------------------------------------------------------
(* Padding, Offset, Size and the solver as the layouts call them,           *)
(* layout.rs 113-274.  Extents are multiples of 1/Unit, as in the solver.   *)

\* Option::and_then over the panic of SizeRequest::new
AndThen(o, F(_)) == IF o = None THEN None ELSE F(Unwrap(o))

\* f32 addition of two extents of which either may be f32::MAX.  The sum
\* f32::MAX + f32::MAX is +inf, which the model does not tell from f32::MAX:
\* both exceed every finite extent and absorb every finite addend.
FSum(a, b) == IF a = F32Max \/ b = F32Max THEN F32Max ELSE a + b

\* Padding::adjust_size; Padding(p.0, p.1, p.2, p.3) is <<p[1], p[2], p[3], p[4]>>
PaddingAdjustSize(p, size) ==
    LET wp == p[1] + p[3]
        hp == p[2] + p[4]
    IN  <<size[1] - wp, size[2] - hp>>

\* mutant: the offset is not moved by the padding
PaddingAdjustOffsetNone(p, offset) == offset

\* Padding::adjust_offset
PaddingAdjustOffset(p, offset) == <<offset[1] + p[1], offset[2] + p[2]>>

\* Padding::adjust_request
PaddingAdjustRequest(p, request) ==
    LET wp == p[1] + p[3]
        hp == p[2] + p[4]
    IN  SizeRequestAdd(request, wp, hp)

\* mutant: every alignment places the item at the start
OffsetGetStart(o, max_size, item_size) == 0

\* Offset::get
OffsetGet(o, max_size, item_size) ==
    CASE o[1] = "Start" -> 0
      [] o[1] = "Center" -> (max_size - item_size) \div 2
      [] o[1] = "End" -> max_size - item_size
      [] o[1] = "Static" -> o[2]

\* Size::max: items.into_iter().reduce(|s, i| (s.0.max(i.0), s.1.max(i.1))).unwrap_or_default()
RECURSIVE SizeMaxFrom(_, _)
SizeMaxFrom(s, items) ==
    IF items = <<>> THEN s
    ELSE SizeMaxFrom(<<Max(s[1], Head(items)[1]), Max(s[2], Head(items)[2])>>, Tail(items))

SizeMax(items) == IF items = <<>> THEN <<0, 0>> ELSE SizeMaxFrom(Head(items), Tail(items))

\* mutant: only the first item counts
SizeAddFromFirst(s, items) == s

\* Size::add: items.into_iter().reduce(|s, i| (s.0+i.0, s.1+i.1)).unwrap_or_default()
RECURSIVE SizeAddFrom(_, _)
SizeAddFrom(s, items) ==
    IF items = <<>> THEN s
    ELSE SizeAddFrom(<<FSum(s[1], Head(items)[1]), FSum(s[2], Head(items)[2])>>, Tail(items))

SizeAdd(items) == IF items = <<>> THEN <<0, 0>> ELSE SizeAddFrom(Head(items), Tail(items))

\* items.iter().fold(f32::MIN, |a, b| a.max(b.0))
RECURSIVE FoldMaxFirst(_, _)
FoldMaxFirst(a, items) ==
    IF items = <<>> THEN a ELSE FoldMaxFirst(Max(a, Head(items)[1]), Tail(items))

\* Size::get with fit = Size::max, as every caller passes it.  Size::Custom
\* holds a function of the caller and is not modelled.
SizeGet(sz, items) ==
    CASE sz[1] = "Fit" -> SizeMax(items)
      [] sz[1] = "Fill" -> <<FoldMaxFirst(F32Min, items), F32Max>>
      [] sz[1] = "Static" -> <<sz[2], sz[2]>>

\* the while loop of UniformExpand::get, run to its end
RECURSIVE ExpandLoop(_, _)
ExpandLoop(sizes, free_space) ==
    IF ~(free_space > 0) THEN sizes
    ELSE LET f == Fold(sizes, free_space)
         IN  IF ~IsSome(f.me) THEN sizes
             ELSE LET expand == Expand(f.ne, f.c, free_space)
                  IN  ExpandLoop(Grow(sizes, Unwrap(f.me), Share(expand, f.c)),
                                 F32Plus(free_space, -expand))

\* UniformExpand::get(sizes, max_size, spacing) for a non-empty list
UniformExpandGet(sizes, max_size, spacing) ==
    LET min_size == MinSize(sizes, TotalSpacing(Len(sizes), spacing))
    IN  Firsts(ExpandLoop(sizes, FreeSpace(max_size, min_size)))

\* children.into_iter().map(|i| (i.min_width(), i.max_width()))
WidthPairs(children) == [i \in DOMAIN children |-> <<children[i].min_width, children[i].max_width>>]

\* children.into_iter().map(|i| (i.min_height(), i.max_height()))
HeightPairs(children) == [i \in DOMAIN children |-> <<children[i].min_height, children[i].max_height>>]

---------------------------------------------------------------------------
(* Column, layout.rs 345-404 *)

\* Column::new(spacing, offset, size, padding, scrollable)
ColumnNew(spacing, offset, size, padding, scrollable) ==
    [spacing |-> spacing, offset |-> offset, size |-> size, padding |-> padding,
     scroll |-> IF scrollable THEN Some(0) ELSE None]

\* Column::adjust_scroll
ColumnAdjustScroll(c, delta) ==
    IF IsSome(c.scroll) THEN [c EXCEPT !.scroll = Some(Unwrap(c.scroll) + delta)] ELSE c

\* Column::set_scroll
ColumnSetScroll(c, val) == [c EXCEPT !.scroll = Some(val)]

\* Column::request_size for a non-empty list; None stands for a panic of
\* SizeRequest::new
ColumnRequestSize(c, children) ==
    LET widths == WidthPairs(children)
        heights == HeightPairs(children)
        spacing == c.spacing * (Len(heights) - 1)
        width == SizeGet(c.size, widths)
        height == SizeAdd(heights)
        request == IF IsSome(c.scroll)
                   THEN SizeRequestNew(0, 0, width[2], height[2])
                   ELSE SizeRequestNew(width[1], height[1], width[2], height[2])
        spaced == AndThen(request, LAMBDA r : SizeRequestAddHeight(r, spacing))
    IN  AndThen(spaced, LAMBDA r : PaddingAdjustRequest(c.padding, r))

\* mutant: the scroll value is not kept from falling below zero
F32ClampNoLower(v, lo, hi) == IF v > hi THEN hi ELSE v

\* f32::clamp(self, min, max), for min <= max
F32Clamp(v, lo, hi) == IF v < lo THEN lo ELSE IF v > hi THEN hi ELSE v

\* children.iter().map(|i| i.min_height()).sum::<f32>()
RECURSIVE ChildrenHeight(_)
ChildrenHeight(children) ==
    IF children = <<>> THEN 0 ELSE Head(children).min_height + ChildrenHeight(Tail(children))

\* children.len().saturating_sub(1)
SaturatingSub1(n) == IF n = 0 THEN 0 ELSE n - 1

\* let max_scroll = (content_height - col_size.1).max(0.0); inner is the padding-adjusted col_size
ColumnMaxScroll(c, inner, children) ==
    LET children_height == ChildrenHeight(children)
        content_height == children_height + c.spacing * SaturatingSub1(Len(children))
    IN  Max(content_height - inner[2], 0)

\* the scroll cell after the closure of build has run for every child: the
\* clamp runs once per child, so not at all for an empty list
ColumnScrollAfter(c, inner, children) ==
    IF IsSome(c.scroll) /\ Len(children) >= 1
    THEN Some(F32Clamp(Unwrap(c.scroll), 0, ColumnMaxScroll(c, inner, children)))
    ELSE c.scroll

\* mutant: the scroll value moves the child on both axes
ScrolledBothAxes(off, scroll_val) == <<off[1] - scroll_val, off[2] - scroll_val>>

\* off.1 -= *scroll_val
Scrolled(off, scroll_val) == <<off[1], off[2] - scroll_val>>

\* the map closure of build over the children from index i on, threading
\* `offset` and the scroll cell, which every closure clamps again
RECURSIVE ColumnPlace(_, _, _, _, _, _)
ColumnPlace(c, inner, children, heights, i, offset) ==
    IF i > Len(children) THEN <<>>
    ELSE LET size == SizeRequestGet(children[i], <<inner[1], heights[i]>>)
             off == PaddingAdjustOffset(c.padding,
                        <<OffsetGet(c.offset, inner[1], size[1]), offset>>)
             scroll == ColumnScrollAfter(c, inner, children)
             placed == IF IsSome(scroll) THEN Scrolled(off, Unwrap(scroll)) ELSE off
         IN  <<[offset |-> placed, size |-> size]>>
                 \o ColumnPlace([c EXCEPT !.scroll = scroll], inner, children, heights,
                                i + 1, offset + size[2] + c.spacing)

\* Column::build for a non-empty list: the Areas returned
ColumnBuild(c, size, children) ==
    LET inner == PaddingAdjustSize(c.padding, size)
        heights == UniformExpandGet(HeightPairs(children), inner[2], c.spacing)
    IN  ColumnPlace(c, inner, children, heights, 1, 0)

---------------------------------------------------------------------------
(* Row, layout.rs 287-333, and Stack, layout.rs 416-458 *)

\* Row::request_size for a non-empty list; the Row is [spacing, offset, size, padding]
RowRequestSize(r, children) ==
    LET widths == WidthPairs(children)
        heights == HeightPairs(children)
        spacing == r.spacing * (Len(widths) - 1)
        width == SizeAdd(widths)
        height == SizeGet(r.size, heights)
        request == SizeRequestNew(width[1], height[1], width[2], height[2])
        spaced == AndThen(request, LAMBDA q : SizeRequestAddWidth(q, spacing))
    IN  AndThen(spaced, LAMBDA q : PaddingAdjustRequest(r.padding, q))

\* the map closure of Row::build over the children from index i on, threading `offset`
RECURSIVE RowPlace(_, _, _, _, _, _)
RowPlace(r, row_size, children, widths, i, offset) ==
    IF i > Len(children) THEN <<>>
    ELSE LET size == SizeRequestGet(children[i], <<widths[i], row_size[2]>>)
             off == PaddingAdjustOffset(r.padding,
                        <<offset, OffsetGet(r.offset, row_size[2], size[2])>>)
         IN  <<[offset |-> off, size |-> size]>>
                 \o RowPlace(r, row_size, children, widths, i + 1, offset + size[1] + r.spacing)

\* Row::build
RowBuild(r, size, children) ==
    LET row_size == PaddingAdjustSize(r.padding, size)
        widths == UniformExpandGet(WidthPairs(children), row_size[1], r.spacing)
    IN  RowPlace(r, row_size, children, widths, 1, 0)

\* Stack::request_size; the Stack is [x_offset, y_offset, x_size, y_size, padding]
StackRequestSize(st, children) ==
    LET width == SizeGet(st.x_size, WidthPairs(children))
        height == SizeGet(st.y_size, HeightPairs(children))
        request == SizeRequestNew(width[1], height[1], width[2], height[2])
    IN  AndThen(request, LAMBDA q : PaddingAdjustRequest(st.padding, q))

\* Stack::build
StackBuild(st, size, children) ==
    LET stack_size == PaddingAdjustSize(st.padding, size)
    IN  [i \in DOMAIN children |->
            LET got == SizeRequestGet(children[i], stack_size)
                offset == <<OffsetGet(st.x_offset, stack_size[1], got[1]),
                            OffsetGet(st.y_offset, stack_size[2], got[2])>>
            IN  [offset |-> PaddingAdjustOffset(st.padding, offset), size |-> got]]

---------------------------------------------------------------------------
(* Bounds of the Column model *)
MaxColumnChildren == 2
MaxColumnHeight == 4
MaxScroll == 2

\* the children's requests: one width range, and heights that are fixed or
\* can expand, between 0 and MaxExtent
ColumnChildren ==
    {[min_width |-> Unit, min_height |-> h[1], max_width |-> 2 * Unit, max_height |-> h[2]] :
        h \in {<<0, 0>>, <<0, MaxExtent * Unit>>, <<Unit, Unit>>,
               <<Unit, MaxExtent * Unit>>, <<MaxExtent * Unit, MaxExtent * Unit>>}}

ColumnChildLists == UNION {[1..n -> ColumnChildren] : n \in 1..MaxColumnChildren}

\* no padding, and Padding(2, 1, 1, 0)
Paddings == {<<0, 0, 0, 0>>, <<2 * Unit, Unit, Unit, 0>>}

\* (Offset, Size) of the cross axis: every variant of both enums but Size::Custom
CrossPolicies ==
    {<< <<"Start">>, <<"Fit">> >>, << <<"Center">>, <<"Fill">> >>,
     << <<"End">>, <<"Static", 3 * Unit>> >>, << <<"Static", Unit>>, <<"Fit">> >>}

\* the values of set_scroll and the deltas of adjust_scroll
ScrollValues == {v * Unit : v \in (-MaxScroll)..MaxScroll}

\* the sizes handed to build
ColumnSizes == {<<3 * Unit, h * Unit>> : h \in 0..MaxColumnHeight}

\* a Column from Column::new, with at least one child
InitColumn ==
    /\ \E spacing \in Spacings, policy \in CrossPolicies, padding \in Paddings,
          scrollable \in BOOLEAN :
          col = ColumnNew(spacing, policy[1], policy[2], padding, scrollable)
    /\ col_children \in ColumnChildLists
    /\ col_size = <<0, 0>>
    /\ col_ret = <<>>
    /\ col_pc = "new"
    /\ AloneColumn

ColumnLive == col_pc \in {"new", "scrolled", "requested", "built"}

\* the caller keeps nothing of what an earlier Layout method returned
Dropped == col_size' = <<0, 0>> /\ col_ret' = <<>>

\* column.adjust_scroll(delta); the model keeps the cell within ScrollValues
ColAdjustScroll ==
    /\ ColumnLive
    /\ \E delta \in ScrollValues :
          /\ col' = ColumnAdjustScroll(col, delta)
          /\ IsSome(col'.scroll) => Unwrap(col'.scroll) \in ScrollValues
    /\ col_pc' = "scrolled"
    /\ Dropped
    /\ UNCHANGED <<col_children, NotColumn>>

\* column.set_scroll(val)
ColSetScroll ==
    /\ ColumnLive
    /\ \E val \in ScrollValues : col' = ColumnSetScroll(col, val)
    /\ col_pc' = "scrolled"
    /\ Dropped
    /\ UNCHANGED <<col_children, NotColumn>>

\* layout.request_size(children)
ColRequestSize ==
    /\ ColumnLive
    /\ LET r == ColumnRequestSize(col, col_children)
       IN  /\ col_ret' = r
           /\ col_pc' = IF r = None THEN "panicked" ELSE "requested"
    /\ col_size' = <<0, 0>>
    /\ UNCHANGED <<col, col_children, NotColumn>>

\* layout.build(size, children): the Areas are returned and the clamped
\* scroll value is stored
ColBuild ==
    /\ ColumnLive
    /\ \E size \in ColumnSizes :
          /\ col_size' = size
          /\ col_ret' = ColumnBuild(col, size, col_children)
          /\ col' = [col EXCEPT !.scroll = ColumnScrollAfter(col,
                                    PaddingAdjustSize(col.padding, size), col_children)]
    /\ col_pc' = "built"
    /\ UNCHANGED <<col_children, NotColumn>>

NextColumn ==
    \/ ColAdjustScroll
    \/ ColSetScroll
    \/ ColRequestSize
    \/ ColBuild

SpecColumn == InitColumn /\ [][NextColumn]_vars

---------------------------------------------------------------------------
(* Properties of Column *)

ColumnCount == Len(col_children)

\* summed minimum heights of the children plus (n-1) x spacing
ContentExtent == ChildrenHeight(col_children) + (ColumnCount - 1) * col.spacing

\* the height handed to build less the vertical padding
AllottedExtent == col_size[2] - (col.padding[2] + col.padding[4])

\* C14: column scroll clamping. After any adjust_scroll / set_scroll calls
\* followed by build on a scrollable column with at least one child, the
\* stored scroll value lies in [0, max(0, content_extent - allotted_extent)].
C14_ScrollClamped ==
    (col_pc = "built" /\ IsSome(col.scroll) /\ ColumnCount >= 1) =>
        /\ 0 <= Unwrap(col.scroll)
        /\ Unwrap(col.scroll) <= Max(0, ContentExtent - AllottedExtent)

\* a padded column of two spaced children taller than the allotted height,
\* scrolled to the end
C14_Witness ==
    /\ col_pc = "built"
    /\ ColumnCount = 2 /\ col.spacing > 0 /\ col.padding[2] > 0
    /\ ContentExtent - AllottedExtent > 0
    /\ col.scroll = Some(ContentExtent - AllottedExtent)

\* the content fits: the stored scroll value is 0
C14_WitnessFits ==
    /\ col_pc = "built"
    /\ ContentExtent < AllottedExtent
    /\ col.scroll = Some(0)

\* C15: scrollable column never forces parent growth. For a Column that has a
\* scroll offset, the minimum height of the request returned by request_size
\* is zero, whatever the children, the spacing and the padding.
C15_ScrollableMinZero ==
    (col_pc = "requested" /\ IsSome(col.scroll)) => Unwrap(col_ret).min_height = 0

---------------------------------------------------------------------------
(* Wrap, layout.rs 470-556.  The Wrap is [w_spacing, h_spacing, offset,     *)
(* padding, width]: self.0, self.1, self.2, self.4 and the cell self.5;     *)
(* self.3 is never read.                                                    *)

\* the body of `for child in children` in request_size; st = [lw, lh, th, max_lw]
WrapRequestStep(w, st, child) ==
    LET cw == child.min_width
        ch == child.min_height
        broken == IF st.lw + cw > w.width /\ st.lw > w.padding[2]
                  THEN [lw |-> w.padding[2], lh |-> 0,
                        th |-> st.th + st.lh + w.h_spacing,
                        max_lw |-> Max(st.max_lw, st.lw - w.w_spacing)]
                  ELSE st
    IN  [broken EXCEPT !.lw = broken.lw + cw + w.w_spacing, !.lh = Max(broken.lh, ch)]

RECURSIVE WrapRequestLoop(_, _, _)
WrapRequestLoop(w, st, children) ==
    IF children = <<>> THEN st
    ELSE WrapRequestLoop(w, WrapRequestStep(w, st, Head(children)), Tail(children))

\* Wrap::request_size
WrapRequestSize(w, children) ==
    LET st == WrapRequestLoop(w, [lw |-> w.padding[2], lh |-> 0, th |-> w.padding[1], max_lw |-> 0],
                              children)
        th == IF st.lw > w.padding[2] THEN st.th + st.lh ELSE st.th
        max_lw == IF st.lw > w.padding[2] THEN Max(st.max_lw, st.lw - w.w_spacing) ELSE st.max_lw
    IN  SizeRequestNew(max_lw + w.padding[3], th + w.padding[4], F32Max, F32Max)

\* line.iter().map(|&(w, h)| { let a = Area{offset: (x, ho), size: (w, h)}; x += w + self.0; a })
RECURSIVE WrapLineAreas(_, _, _, _)
WrapLineAreas(w, line, x, ho) ==
    IF line = <<>> THEN <<>>
    ELSE <<[offset |-> <<x, ho>>, size |-> Head(line)]>>
             \o WrapLineAreas(w, Tail(line), x + Head(line)[1] + w.w_spacing, ho)

\* the closure flush(line, tw, _, ho) of build
WrapFlush(w, maximum_size, line, tw, ho) ==
    IF line = <<>> THEN <<>>
    ELSE LET line_w == tw - w.w_spacing - w.padding[2]
             extra == Max(maximum_size[1] - line_w, 0)
             start_x == CASE w.offset[1] = "Start" -> w.padding[2]
                          [] w.offset[1] = "End" -> w.padding[2] + extra
                          [] w.offset[1] = "Center" -> w.padding[2] + extra \div 2
                          [] w.offset[1] = "Static" -> 0
         IN  WrapLineAreas(w, line, start_x, ho)

\* if tw + w > maximum_size.0 && tw > self.4.1
WrapBreaks(w, maximum_size, tw, cw) == tw + cw > maximum_size[1] /\ tw > w.padding[2]

\* mutant: at a line break the line is cleared without being flushed
WrapBuildStepNoFlush(w, maximum_size, st, child) ==
    LET cw == child.min_width
        ch == child.min_height
        broken == IF WrapBreaks(w, maximum_size, st.tw, cw)
                  THEN [areas |-> st.areas,
                        line |-> <<>>, tw |-> w.padding[2],
                        ho |-> st.ho + st.lh + w.h_spacing, lh |-> 0,
                        lines |-> Append(st.lines, st.line)]
                  ELSE st
    IN  [broken EXCEPT !.line = Append(broken.line, <<cw, ch>>),
                       !.tw = broken.tw + cw + w.w_spacing,
                       !.lh = Max(broken.lh, ch)]

\* the body of `for child in children` in build; st = [areas, line, tw, ho, lh]
\* and lines, the vectors flushed so far
WrapBuildStep(w, maximum_size, st, child) ==
    LET cw == child.min_width
        ch == child.min_height
        broken == IF WrapBreaks(w, maximum_size, st.tw, cw)
                  THEN [areas |-> st.areas \o WrapFlush(w, maximum_size, st.line, st.tw, st.ho),
                        line |-> <<>>, tw |-> w.padding[2],
                        ho |-> st.ho + st.lh + w.h_spacing, lh |-> 0,
                        lines |-> Append(st.lines, st.line)]
                  ELSE st
    IN  [broken EXCEPT !.line = Append(broken.line, <<cw, ch>>),
                       !.tw = broken.tw + cw + w.w_spacing,
                       !.lh = Max(broken.lh, ch)]

RECURSIVE WrapBuildLoop(_, _, _, _)
WrapBuildLoop(w, maximum_size, st, children) ==
    IF children = <<>> THEN st
    ELSE WrapBuildLoop(w, maximum_size, WrapBuildStep(w, maximum_size, st, Head(children)),
                       Tail(children))

\* Wrap::build: [areas, lines], the Areas returned and the lines flushed
WrapBuild(w, maximum_size, children) ==
    LET st == WrapBuildLoop(w, maximum_size,
                            [areas |-> <<>>, line |-> <<>>, tw |-> w.padding[2],
                             ho |-> w.padding[1], lh |-> 0, lines |-> <<>>],
                            children)
    IN  [areas |-> st.areas \o WrapFlush(w, maximum_size, st.line, st.tw, st.ho),
         lines |-> IF st.line = <<>> THEN st.lines ELSE Append(st.lines, st.line)]

---------------------------------------------------------------------------
(* Bounds of the Wrap model *)
MaxWrapChildren == 3
MaxWrapWidth == 2
MaxWrapAvail == 3

\* the children's requests: fixed sizes of width 0..MaxWrapWidth and height
\* one, and the empty size
WrapChildren ==
    {SizeRequestFixed(<<cw * Unit, Unit>>) : cw \in 0..MaxWrapWidth}
    \cup {SizeRequestFixed(<<0, 0>>)}

WrapChildLists == UNION {[1..n -> WrapChildren] : n \in 0..MaxWrapChildren}

\* the four variants of pub enum Offset
Offsets == {<<"Start">>, <<"Center">>, <<"End">>, <<"Static", Unit>>}

\* the sizes handed to build
WrapSizes == {<<aw * Unit, MaxWrapAvail * Unit>> : aw \in 0..MaxWrapAvail}

\* mutant: build leaves the width cell as it was
WrapAfterBuildKept(w, maximum_size) == w

\* *self.5.lock().unwrap() = maximum_size.0: the Wrap after build
WrapAfterBuild(w, maximum_size) == [w EXCEPT !.width = maximum_size[1]]

\* a Wrap as the constructors make it (width cell 0.0), its public fields set
\* to any spacing, offset and padding
InitWrap ==
    /\ \E w_spacing \in Spacings, h_spacing \in {0, Unit}, offset \in Offsets,
          padding \in Paddings :
          wr = [w_spacing |-> w_spacing, h_spacing |-> h_spacing, offset |-> offset,
                padding |-> padding, width |-> 0]
    /\ wr_children \in WrapChildLists
    /\ wr_size = <<0, 0>>
    /\ wr_ret = <<>>
    /\ wr_lines = <<>>
    /\ wr_pc = "new"
    /\ AloneWrap

\* layout.request_size(children); new cannot panic, its maximums are f32::MAX
WrRequestSize ==
    /\ wr_pc \in {"new", "requested", "built"}
    /\ wr_ret' = Unwrap(WrapRequestSize(wr, wr_children))
    /\ wr_pc' = "requested"
    /\ wr_size' = <<0, 0>>
    /\ wr_lines' = <<>>
    /\ UNCHANGED <<wr, wr_children, NotWrap>>

\* layout.build(maximum_size, children): the width is stored in the cell
WrBuild ==
    /\ wr_pc \in {"new", "requested", "built"}
    /\ \E maximum_size \in WrapSizes :
          LET built == WrapBuild(wr, maximum_size, wr_children)
          IN  /\ wr' = WrapAfterBuild(wr, maximum_size)
              /\ wr_size' = maximum_size
              /\ wr_ret' = built.areas
              /\ wr_lines' = built.lines
    /\ wr_pc' = "built"
    /\ UNCHANGED <<wr_children, NotWrap>>

NextWrap ==
    \/ WrRequestSize
    \/ WrBuild

SpecWrap == InitWrap /\ [][NextWrap]_vars

---------------------------------------------------------------------------
(* Properties of Wrap *)

RECURSIVE SumWidths(_)
SumWidths(line) == IF line = <<>> THEN 0 ELSE Head(line)[1] + SumWidths(Tail(line))

\* summed child widths of a line plus the horizontal spacing between them
LineWidth(line) == SumWidths(line) + (Len(line) - 1) * wr.w_spacing

\* C16: wrap line-break correctness. In the placement build returns for
\* allotted width W, every line consists of a single child or has summed
\* child widths plus inter-item spacing <= W; a child starts a new line
\* exactly when adding it would exceed W and the line holds at least one
\* child, also when the children on the line have zero width.
C16_LineBreaks ==
    wr_pc = "built" =>
        LET W == wr_size[1]
        IN  /\ \A k \in DOMAIN wr_lines :
                  Len(wr_lines[k]) = 1 \/ LineWidth(wr_lines[k]) <= W
            /\ \A k \in DOMAIN wr_lines :
                  k >= 2 => LineWidth(Append(wr_lines[k - 1], wr_lines[k][1])) > W
            /\ \A k \in DOMAIN wr_lines : \A j \in DOMAIN wr_lines[k] :
                  j >= 2 => LineWidth(SubSeq(wr_lines[k], 1, j)) <= W

\* the same statement for a Wrap without padding
C16_LineBreaksUnpadded ==
    wr.padding = <<0, 0, 0, 0>> => C16_LineBreaks

\* every child is placed, in input order, line after line
C16_EveryChildPlaced ==
    wr_pc = "built" =>
        /\ Len(wr_ret) = Len(wr_children)
        /\ \A i \in DOMAIN wr_ret :
              wr_ret[i].size = <<wr_children[i].min_width, wr_children[i].min_height>>

---------------------------------------------------------------------------
(* Drawable: request_size and build over a tree, drawable.rs 14-34, 90-157. *)
(* A leaf is [kind |-> "leaf", size]: a Text, Shape or Image of that size.   *)
(* A component is [kind |-> "component", layout, children].  RequestTree(r,  *)
(* v) is [request |-> r, branches |-> v]; SizedTree(s, v) is [size |-> s,    *)
(* branches |-> v], v a sequence of <<offset, SizedTree>>.                   *)

\* self.layout().request_size(info)
LayoutRequestSize(l, children) ==
    CASE l.type = "Stack" -> StackRequestSize(l, children)
      [] l.type = "Row" -> RowRequestSize(l, children)
      [] l.type = "Column" -> ColumnRequestSize(l, children)
      [] l.type = "Wrap" -> WrapRequestSize(l, children)

\* self.layout().build(size, children): the Areas returned
LayoutBuild(l, size, children) ==
    CASE l.type = "Stack" -> StackBuild(l, size, children)
      [] l.type = "Row" -> RowBuild(l, size, children)
      [] l.type = "Column" -> ColumnBuild(l, size, children)
      [] l.type = "Wrap" -> WrapBuild(l, size, children).areas

\* self.layout().build(size, children): the layout afterwards.  Column stores
\* the clamped scroll value, Wrap the width it was given.
LayoutAfterBuild(l, size, children) ==
    CASE l.type = "Column" ->
            [l EXCEPT !.scroll = ColumnScrollAfter(l, PaddingAdjustSize(l.padding, size), children)]
      [] l.type = "Wrap" -> [l EXCEPT !.width = size[1]]
      [] OTHER -> l

\* RequestTree::default() and SizedTree::default()
RequestTreeDefault == [request |-> SizeRequestDefault, branches |-> <<>>]
SizedTreeDefault == [size |-> <<0, 0>>, branches |-> <<>>]

\* Drawable::request_size: None where a SizeRequest::new below panicked.  A
\* leaf is [kind |-> "leaf", size], an Option<D> is [kind |-> "option", inner]
\* and a component is [kind |-> "component", layout, children].
RECURSIVE DrawableRequestSize(_)
DrawableRequestSize(d) ==
    IF d.kind = "leaf"
    THEN Some([request |-> SizeRequestFixed(d.size), branches |-> <<>>])
    ELSE IF d.kind = "option"
    THEN IF IsSome(d.inner) THEN DrawableRequestSize(Unwrap(d.inner))
         ELSE Some(RequestTreeDefault)
    ELSE LET results == [i \in DOMAIN d.children |-> DrawableRequestSize(d.children[i])]
         IN  IF \E i \in DOMAIN results : results[i] = None THEN None
             ELSE LET requests == [i \in DOMAIN results |-> Unwrap(results[i])]
                      info == [i \in DOMAIN requests |-> requests[i].request]
                      r == LayoutRequestSize(d.layout, info)
                  IN  IF r = None THEN None
                      ELSE Some([request |-> Unwrap(r), branches |-> requests])

\* the length of a.zip(b).zip(c)
ZipLen(a, b, c) == Min(Min(Len(a), Len(b)), Len(c))

\* Drawable::build(size, request): [sized, node], the SizedTree returned and
\* the drawable afterwards
RECURSIVE DrawableBuild(_, _, _)
DrawableBuild(d, size, request) ==
    IF d.kind = "leaf"
    THEN [sized |-> [size |-> SizeRequestGet(request.request, size), branches |-> <<>>],
          node |-> d]
    ELSE IF d.kind = "option"
    THEN IF IsSome(d.inner)
         THEN LET b == DrawableBuild(Unwrap(d.inner), size, request)
              IN  [sized |-> b.sized, node |-> [d EXCEPT !.inner = Some(b.node)]]
         ELSE [sized |-> SizedTreeDefault, node |-> d]
    ELSE LET got == SizeRequestGet(request.request, size)
             children == [i \in DOMAIN request.branches |-> request.branches[i].request]
             areas == LayoutBuild(d.layout, got, children)
             n == ZipLen(areas, d.children, request.branches)
             built == [i \in 1..n |->
                          DrawableBuild(d.children[i], areas[i].size, request.branches[i])]
         IN  [sized |-> [size |-> got,
                         branches |-> [i \in 1..n |-> <<areas[i].offset, built[i].sized>>]],
              node |-> [d EXCEPT !.layout = LayoutAfterBuild(d.layout, got, children),
                                 !.children = [i \in DOMAIN d.children |->
                                                  IF i <= n THEN built[i].node
                                                  ELSE d.children[i]]]]

---------------------------------------------------------------------------
(* Bounds of the tree model *)
MaxTreeChildren == 2
MaxInnerChildren == 1
MaxTreeSize == 4

\* extents of the tree are multiples of 2/Unit, so that the halving of
\* Offset::Center is exact on what the solver allots
TreeUnit == 2 * Unit

\* two leaves of different fixed sizes
Leaves == {[kind |-> "leaf", size |-> <<TreeUnit, 2 * TreeUnit>>],
           [kind |-> "leaf", size |-> <<2 * TreeUnit, TreeUnit>>]}

\* one layout of each policy
TreeLayouts ==
    {[type |-> "Stack", x_offset |-> <<"Center">>, y_offset |-> <<"End">>,
      x_size |-> <<"Fit">>, y_size |-> <<"Fit">>, padding |-> <<0, 0, 0, 0>>],
     [type |-> "Row", spacing |-> TreeUnit, offset |-> <<"Center">>, size |-> <<"Fit">>,
      padding |-> <<2 * TreeUnit, TreeUnit, TreeUnit, 0>>],
     [type |-> "Column", spacing |-> TreeUnit, offset |-> <<"Start">>, size |-> <<"Fill">>,
      padding |-> <<0, 0, 0, 0>>, scroll |-> Some(0)],
     [type |-> "Wrap", w_spacing |-> TreeUnit, h_spacing |-> TreeUnit, offset |-> <<"Center">>,
      padding |-> <<0, 0, 0, 0>>, width |-> 0]}

\* the components over the given candidate children, at most n of them.  A
\* Row or Column without children is left out: its request_size does not
\* return in a build with overflow checks, and elsewhere requests extents of
\* the magnitude of usize::MAX or f32::MIN, on which f32 addition absorbs
\* the extents of the model.
Components(candidates, n) ==
    {[kind |-> "component", layout |-> l, children |-> ch] :
        l \in TreeLayouts, ch \in UNION {[1..k -> candidates] : k \in 0..n}}
    \ {[kind |-> "component", layout |-> l, children |-> <<>>] :
        l \in {t \in TreeLayouts : t.type \in {"Row", "Column"}}}

\* trees of depth two
Trees == Components(Leaves \cup Components(Leaves, MaxInnerChildren), MaxTreeChildren)

\* the sizes handed to build at the root
TreeSizes ==
    {<<0, 0>>, <<0, MaxTreeSize * TreeUnit>>, <<MaxTreeSize * TreeUnit, MaxTreeSize * TreeUnit>>}

InitTree ==
    /\ tr_root \in Trees
    /\ tr_request = None
    /\ tr_size = <<0, 0>>
    /\ tr_sized = <<>>
    /\ tr_pc = "new"
    /\ AloneTree

\* root.request_size()
TreeRequestSize ==
    /\ tr_pc = "new"
    /\ tr_request' = DrawableRequestSize(tr_root)
    /\ tr_pc' = IF tr_request' = None THEN "panicked" ELSE "requested"
    /\ UNCHANGED <<tr_root, tr_size, tr_sized, NotTree>>

\* root.build(size, request) on the request tree request_size returned
TreeBuild ==
    /\ tr_pc = "requested"
    /\ \E size \in TreeSizes :
          LET b == DrawableBuild(tr_root, size, Unwrap(tr_request))
          IN  /\ tr_size' = size
              /\ tr_sized' = b.sized
              /\ tr_root' = b.node
    /\ tr_pc' = "built"
    /\ UNCHANGED <<tr_request, NotTree>>

NextTree ==
    \/ TreeRequestSize
    \/ TreeBuild

SpecTree == InitTree /\ [][NextTree]_vars

---------------------------------------------------------------------------
(* Properties of the tree *)

\* the sized tree has one entry per child of the drawable, entry i being the
\* sized tree of child i, at every level.  A leaf is recognised by its size:
\* its request is fixed, so build resolves it to the leaf's own size.
RECURSIVE Mirrors(_, _)
Mirrors(d, sized) ==
    IF d.kind = "leaf"
    THEN sized.branches = <<>> /\ sized.size = d.size
    ELSE IF d.kind = "option"
    THEN IF IsSome(d.inner) THEN Mirrors(Unwrap(d.inner), sized) ELSE sized = SizedTreeDefault
    ELSE /\ Len(sized.branches) = Len(d.children)
         /\ \A i \in DOMAIN d.children : Mirrors(d.children[i], sized.branches[i][2])

\* C17: tree-shape mirroring. build applied to the request tree the node's
\* own request_size returned yields a sized tree with exactly one
\* (offset, subtree) entry per child, in the order of children(), at every
\* level, for Stack, Row, Column and Wrap.
C17_TreeShape ==
    tr_pc = "built" => Mirrors(tr_root, tr_sized)

\* a root with a component of at least one child first and a leaf second
C17_Witness ==
    /\ tr_pc = "built"
    /\ Len(tr_root.children) = 2
    /\ tr_root.children[1].kind = "component"
    /\ Len(tr_root.children[1].children) >= 1
    /\ tr_root.children[2].kind = "leaf"
    /\ Len(tr_sized.branches) = 2
    /\ Len(tr_sized.branches[1][2].branches) = Len(tr_root.children[1].children)
    /\ tr_sized.branches[2][2].branches = <<>>

---------------------------------------------------------------------------
(* Drawable::event of a component, drawable.rs 175-182, with the default     *)
(* no-op of the other drawables, drawable.rs 39.  A component of the         *)
(* dispatch is [kind |-> "component", handler, children], handler naming     *)
(* what its OnEvent implementation returns; a leaf is [kind |-> "leaf"].     *)
(* A call under way is a frame [node, sized, path, pending, entries, i, n]:  *)
(* the events of the handler still to pass, the entries of the pass under    *)
(* way, the next position and the length of the zip.                         *)

\* a user-implemented Event: pass returns one entry per element of `entries`,
\* Some(self) where it is TRUE and None where it is FALSE
CustomEventPass(ev, children) ==
    [i \in DOMAIN ev.entries |-> IF ev.entries[i] THEN Some(ev) ELSE None]

\* event.pass(ctx, &children), by the type behind the Box<dyn Event>
EventPass(ev, children) ==
    IF "position" \in DOMAIN ev THEN MouseEventPass(ev, children)
    ELSE IF ev.type = "TickEvent" THEN TickEventPass(ev, children)
    ELSE CustomEventPass(ev, children)

\* mutant: the default handler returns the event twice
OnEventRepeated(handler, event) ==
    CASE handler = "default" -> <<event, event>>
      [] handler = "none" -> <<>>
      [] handler = "tick" -> <<event, [type |-> "TickEvent"]>>

\* OnEvent::on_event: the default returns vec![event]; an implementation may
\* return no event, or the event followed by another one
OnEvent(handler, event) ==
    CASE handler = "default" -> <<event>>
      [] handler = "none" -> <<>>
      [] handler = "tick" -> <<event, [type |-> "TickEvent"]>>

\* mutant: the Areas carry no offset
ChildAreasAtOrigin(sized) ==
    [i \in DOMAIN sized.branches |->
        [offset |-> <<0, 0>>, size |-> sized.branches[i][2].size]]

\* sized.1.iter().map(|(o, branch)| Area{offset: *o, size: branch.0}).collect()
ChildAreas(sized) ==
    [i \in DOMAIN sized.branches |->
        [offset |-> sized.branches[i][1], size |-> sized.branches[i][2].size]]

\* the log after child.event(ctx, sized, event) was entered at `path`: a
\* component runs its handler at once
Entered(log, d, sized, event, path) ==
    LET call == Append(log, [op |-> "event", path |-> path, event |-> event, sized |-> sized])
    IN  IF d.kind = "leaf" THEN call
        ELSE Append(call, [op |-> "on_event", path |-> path, event |-> event])

\* the frame of a component entered at `path`: `for event in on_event(..)`
Frame(d, sized, event, path) ==
    [node |-> d, sized |-> sized, path |-> path,
     pending |-> OnEvent(d.handler, event), entries |-> <<>>, i |-> 1, n |-> 0]

\* the calls under way after d.event was entered: a leaf returns at once
Pushed(stack, d, sized, event, path) ==
    IF d.kind = "leaf" THEN stack ELSE Append(stack, Frame(d, sized, event, path))

Top == ev_stack[Len(ev_stack)]

\* the calls under way with the innermost frame replaced
WithTop(f) == [ev_stack EXCEPT ![Len(ev_stack)] = f]

---------------------------------------------------------------------------
(* Bounds of the dispatch model *)
MaxEventChildren == 2
MaxEventInner == 1

EventHandlers == {"default", "none", "tick"}

\* the drawables below the root: a leaf, or a component over leaves
EventInner ==
    {[kind |-> "leaf"]}
    \cup {[kind |-> "component", handler |-> h, children |-> ch] :
             h \in {"default", "none"},
             ch \in UNION {[1..k -> {[kind |-> "leaf"]}] : k \in 0..MaxEventInner}}

EventRoots ==
    {[kind |-> "component", handler |-> h, children |-> ch] :
        h \in EventHandlers,
        ch \in UNION {[1..k -> EventInner] : k \in 0..MaxEventChildren}}

\* a sized tree as build returns it for d: one branch per child, child i at
\* offset (i - 1, i - 1) with the largest size of the hit-test model
RECURSIVE SizedFor(_)
SizedFor(d) ==
    [size |-> <<MaxSize, MaxSize>>,
     branches |-> IF d.kind = "leaf" THEN <<>>
                  ELSE [i \in DOMAIN d.children |-> <<<<i - 1, i - 1>>, SizedFor(d.children[i])>>]]

\* the events handed to the root
DispatchEvents ==
    [position : {None, Some(<<1, 1>>), Some(<<2, 2>>)}, state : {"Pressed"}]
    \cup TickEvents
    \cup [type : {"Custom"}, entries : {<<TRUE>>, <<FALSE, TRUE>>, <<TRUE, FALSE, TRUE>>}]

InitEvent ==
    /\ ev_root \in EventRoots
    /\ ev_sized = SizedFor(ev_root)
    /\ ev_event \in DispatchEvents
    /\ ev_stack = <<>>
    /\ ev_log = <<>>
    /\ ev_pc = "new"
    /\ AloneEvent

\* root.event(ctx, &sized, event): the handler of the root runs
EventCall ==
    /\ ev_pc = "new"
    /\ ev_log' = Entered(ev_log, ev_root, ev_sized, ev_event, <<>>)
    /\ ev_stack' = Pushed(ev_stack, ev_root, ev_sized, ev_event, <<>>)
    /\ ev_pc' = "running"
    /\ UNCHANGED <<ev_root, ev_sized, ev_event, NotEvent>>

\* the next event of the handler: event.pass(ctx, &children), zipped with
\* children_mut() and sized.1
EventNext ==
    /\ ev_pc = "running"
    /\ ev_stack # <<>>
    /\ Top.i > Top.n
    /\ Top.pending # <<>>
    /\ LET f == Top
           event == Head(f.pending)
           children == ChildAreas(f.sized)
           entries == EventPass(event, children)
       IN  /\ ev_log' = Append(ev_log, [op |-> "pass", path |-> f.path, event |-> event,
                                        children |-> children])
           /\ ev_stack' = WithTop([f EXCEPT !.pending = Tail(f.pending),
                                            !.entries = entries,
                                            !.i = 1,
                                            !.n = ZipLen(entries, f.node.children,
                                                         f.sized.branches)])
    /\ UNCHANGED <<ev_root, ev_sized, ev_event, ev_pc, NotEvent>>

\* if let Some(e) = e {child.event(ctx, &branch.1, e);}
EventChild ==
    /\ ev_pc = "running"
    /\ ev_stack # <<>>
    /\ Top.i <= Top.n
    /\ IsSome(Top.entries[Top.i])
    /\ LET f == Top
           child == f.node.children[f.i]
           branch == f.sized.branches[f.i]
           e == Unwrap(f.entries[f.i])
           path == Append(f.path, f.i)
       IN  /\ ev_log' = Entered(ev_log, child, branch[2], e, path)
           /\ ev_stack' = Pushed(WithTop([f EXCEPT !.i = f.i + 1]), child, branch[2], e, path)
    /\ UNCHANGED <<ev_root, ev_sized, ev_event, ev_pc, NotEvent>>

\* the entry is None: the closure does nothing for this child
EventSkip ==
    /\ ev_pc = "running"
    /\ ev_stack # <<>>
    /\ Top.i <= Top.n
    /\ ~IsSome(Top.entries[Top.i])
    /\ ev_stack' = WithTop([Top EXCEPT !.i = Top.i + 1])
    /\ UNCHANGED <<ev_root, ev_sized, ev_event, ev_log, ev_pc, NotEvent>>

\* the for loop over the handler's events is over: event returns
EventReturn ==
    /\ ev_pc = "running"
    /\ ev_stack # <<>>
    /\ Top.i > Top.n
    /\ Top.pending = <<>>
    /\ ev_stack' = SubSeq(ev_stack, 1, Len(ev_stack) - 1)
    /\ ev_pc' = IF Len(ev_stack) = 1 THEN "done" ELSE "running"
    /\ UNCHANGED <<ev_root, ev_sized, ev_event, ev_log, NotEvent>>

NextEvent ==
    \/ EventCall
    \/ EventNext
    \/ EventChild
    \/ EventSkip
    \/ EventReturn

SpecEvent == InitEvent /\ [][NextEvent]_vars

\* the dispatch is sequential code: a step that can be taken is taken
SpecEventFair == SpecEvent /\ WF_vars(NextEvent)

---------------------------------------------------------------------------
(* Properties of the dispatch *)

\* the calls the protocol prescribes for d.event(sized, event) at `path`, in
\* order: the handler of d once, then for each event it returns the pass
\* over the Areas of the sized tree, then each child whose entry is Some,
\* with that entry and its own sized subtree
RECURSIVE Protocol(_, _, _, _)
RECURSIVE ProtocolEvents(_, _, _, _)
RECURSIVE ProtocolChildren(_, _, _, _, _)
Protocol(d, sized, event, path) ==
    LET call == <<[op |-> "event", path |-> path, event |-> event, sized |-> sized]>>
    IN  IF d.kind = "leaf" THEN call
        ELSE call \o <<[op |-> "on_event", path |-> path, event |-> event]>>
                  \o ProtocolEvents(d, sized, OnEvent(d.handler, event), path)

ProtocolEvents(d, sized, events, path) ==
    IF events = <<>> THEN <<>>
    ELSE LET areas == [i \in DOMAIN sized.branches |->
                          [offset |-> sized.branches[i][1],
                           size |-> sized.branches[i][2].size]]
             entries == EventPass(Head(events), areas)
         IN  <<[op |-> "pass", path |-> path, event |-> Head(events), children |-> areas]>>
                 \o ProtocolChildren(d, sized, entries, 1, path)
                 \o ProtocolEvents(d, sized, Tail(events), path)

ProtocolChildren(d, sized, entries, i, path) ==
    IF i > Len(d.children) THEN <<>>
    ELSE (IF i <= Len(entries) /\ entries[i] # None
          THEN Protocol(d.children[i], sized.branches[i][2], Unwrap(entries[i]),
                        Append(path, i))
          ELSE <<>>)
         \o ProtocolChildren(d, sized, entries, i + 1, path)

IsPrefix(a, b) == Len(a) <= Len(b) /\ a = SubSeq(b, 1, Len(a))

\* C18: dispatch protocol at a composite. Drawable::event runs the node's
\* own on_event once and before any descendant sees the event; then, for
\* each event the handler returns, in the returned order, it calls pass with
\* the children's Areas of the sized tree and recurses into child i with
\* entry i and child i's sized subtree if and only if entry i is Some; an
\* empty handler result reaches no descendant. At every moment the calls
\* made so far are the beginning of the prescribed ones, and all of them
\* once the root call has returned.
C18_DispatchProtocol ==
    LET prescribed == Protocol(ev_root, ev_sized, ev_event, <<>>)
    IN  /\ ev_pc \in {"running", "done"} => IsPrefix(ev_log, prescribed)
        /\ ev_pc = "done" => ev_log = prescribed

\* C18, progress: the root call returns
C18_DispatchReturns == (ev_pc = "new") ~> (ev_pc = "done")

\* a handler that returned two events, a child two levels down that was
\* reached, and a child that was skipped over
C18_Witness ==
    /\ ev_pc = "done"
    /\ ev_root.handler = "tick"
    /\ Len(ev_root.children) = 2
    /\ \E k \in DOMAIN ev_log : ev_log[k].op = "event" /\ Len(ev_log[k].path) = 2
    /\ \E k \in DOMAIN ev_log : ev_log[k].op = "event" /\ ev_log[k].path = <<2>>
    /\ ~\E k \in DOMAIN ev_log :
           /\ ev_log[k].op = "event"
           /\ ev_log[k].path = <<1>>
           /\ ev_log[k].event = ev_event

\* a handler that returned no event, over children: nothing but the handler ran
C18_WitnessEmpty ==
    /\ ev_pc = "done"
    /\ ev_root.handler = "none"
    /\ ev_root.children # <<>>
    /\ Len(ev_log) = 2

---------------------------------------------------------------------------
(* Row, Column and Stack behind the Layout trait, layout.rs 287-458: one    *)
(* layout value, its request_size and its build on the same children.       *)

(* Bounds of the layout model *)
MaxLayoutChildren == 2
MaxLayoutSize == 6

\* the children's requests: two fixed sizes, one that can grow up to a
\* ceiling on both axes, and one without a ceiling
LayoutChildren ==
    {[min_width |-> Unit, min_height |-> 2 * Unit, max_width |-> Unit, max_height |-> 2 * Unit],
     [min_width |-> 2 * Unit, min_height |-> Unit, max_width |-> 2 * Unit, max_height |-> Unit],
     [min_width |-> 0, min_height |-> 0, max_width |-> 2 * Unit, max_height |-> 2 * Unit],
     [min_width |-> Unit, min_height |-> 0, max_width |-> F32Max, max_height |-> F32Max]}

LayoutChildLists == UNION {[1..n -> LayoutChildren] : n \in 1..MaxLayoutChildren}

\* Row::new(spacing, offset, size, padding)
RowNew(spacing, offset, size, padding) ==
    [type |-> "Row", spacing |-> spacing, offset |-> offset, size |-> size, padding |-> padding]

\* Stack::new(x_offset, y_offset, x_size, y_size, padding)
StackNew(x_offset, y_offset, x_size, y_size, padding) ==
    [type |-> "Stack", x_offset |-> x_offset, y_offset |-> y_offset,
     x_size |-> x_size, y_size |-> y_size, padding |-> padding]

\* a Column behind the trait: Column::new, then set_scroll where scroll is Some
ColumnWith(spacing, offset, size, padding, scroll) ==
    [type |-> "Column", spacing |-> spacing, offset |-> offset, size |-> size,
     padding |-> padding, scroll |-> scroll]

Rows ==
    {RowNew(spacing, policy[1], policy[2], padding) :
        spacing \in Spacings, policy \in CrossPolicies, padding \in Paddings}

Columns ==
    {ColumnWith(spacing, policy[1], policy[2], padding, scroll) :
        spacing \in Spacings, policy \in CrossPolicies, padding \in Paddings,
        scroll \in {None, Some(0), Some(Unit)}}

Stacks ==
    {StackNew(x[1], y[1], x[2], y[2], padding) :
        x \in CrossPolicies, y \in CrossPolicies, padding \in Paddings}

\* the sizes handed to build
LayoutSizes ==
    {<<a * Unit, b * Unit>> : a \in {0, 3, MaxLayoutSize}, b \in {0, 3, MaxLayoutSize}}

InitLayout ==
    /\ ly \in Rows \cup Columns \cup Stacks
    /\ ly_children \in LayoutChildLists
    /\ ly_size = <<0, 0>>
    /\ ly_ret = <<>>
    /\ ly_pc = "new"
    /\ AloneLayout

\* layout.request_size(children)
LyRequestSize ==
    /\ ly_pc \in {"new", "requested", "built"}
    /\ LET r == LayoutRequestSize(ly, ly_children)
       IN  /\ ly_ret' = r
           /\ ly_pc' = IF r = None THEN "panicked" ELSE "requested"
    /\ ly_size' = <<0, 0>>
    /\ UNCHANGED <<ly, ly_children, NotLayout>>

\* layout.build(size, children)
LyBuild ==
    /\ ly_pc \in {"new", "requested", "built"}
    /\ \E size \in LayoutSizes :
          /\ ly_size' = size
          /\ ly_ret' = LayoutBuild(ly, size, ly_children)
          /\ ly' = LayoutAfterBuild(ly, size, ly_children)
    /\ ly_pc' = "built"
    /\ UNCHANGED <<ly_children, NotLayout>>

NextLayout ==
    \/ LyRequestSize
    \/ LyBuild

SpecLayout == InitLayout /\ [][NextLayout]_vars

---------------------------------------------------------------------------
(* Properties of Row, Column and Stack *)

LayoutCount == Len(ly_children)

\* (n-1) x spacing
LayoutGaps == (LayoutCount - 1) * ly.spacing

\* the paddings the layouts add on each axis and put before the first child
WidthPadding == ly.padding[1] + ly.padding[3]
HeightPadding == ly.padding[2] + ly.padding[4]

\* the f32 sum of extents plus a finite rest: f32::MAX among the extents
\* absorbs everything else
SumWith(extents, rest) ==
    IF \E i \in DOMAIN extents : extents[i] = F32Max THEN F32Max
    ELSE SumSeq(extents) + rest

C21_WitnessColumn ==
    /\ ly_pc = "requested"
    /\ ly.type = "Column" /\ ly.scroll = None
    /\ LayoutCount = 2 /\ ly.spacing > 0 /\ HeightPadding > 0
    /\ Unwrap(ly_ret).min_height < Unwrap(ly_ret).max_height
    /\ Unwrap(ly_ret).max_height < F32Max

\* the extent the layout has left for its children after the padding
LayoutInner == PaddingAdjustSize(ly.padding, ly_size)

\* the solver's allotments on the primary axis of a Row or Column
Allotments ==
    IF ly.type = "Row"
    THEN UniformExpandGet(WidthPairs(ly_children), LayoutInner[1], ly.spacing)
    ELSE UniformExpandGet(HeightPairs(ly_children), LayoutInner[2], ly.spacing)

\* the primary axis of a Row is x (1), of a Column y (2)
Primary == IF ly.type = "Row" THEN 1 ELSE 2

\* the scroll value a Column holds once build has clamped it, 0 for a Row
\* and for a Column that does not scroll
ScrollValue ==
    IF ly.type = "Column" /\ IsSome(ly.scroll) THEN Unwrap(ly.scroll) ELSE 0

\* sum over j < i of (allotment_j + spacing)
RECURSIVE RunningOffset(_)
RunningOffset(i) ==
    IF i <= 1 THEN 0 ELSE RunningOffset(i - 1) + Allotments[i - 1] + ly.spacing

C22_WitnessScroll ==
    /\ ly_pc = "built" /\ ly.type = "Column"
    /\ LayoutCount = 2 /\ ScrollValue > 0
    /\ ly_ret[1].offset[2] < ly.padding[2]

\* what the alignment o asks of an offset before the padding, given the
\* stack's and the child's extent on that axis.  Center is stated without a
\* division: twice the offset is the space left over.
Aligned(o, stack, child, offset) ==
    CASE o[1] = "Start" -> offset = 0
      [] o[1] = "Center" -> 2 * offset = stack - child
      [] o[1] = "End" -> offset = stack - child
      [] o[1] = "Static" -> offset = o[2]

---------------------------------------------------------------------------
(* draw of a component, drawable.rs 159-173: the flat_map over the          *)
(* branches of the sized tree, the recursion into child.draw kept as a      *)
(* stack of the closures under way.                                         *)

\* let poffset = (poffset.0+offset.0, poffset.1+offset.1)
ChildOffset(poffset, offset) == <<poffset[1] + offset[1], poffset[2] + offset[2]>>

\* let bound = (bound.0.max(poffset.0), bound.1.max(poffset.1),
\*              bound.2.min((offset.0 + size.0).max(0.0)),
\*              bound.3.min((offset.1 + size.1).max(0.0)))
\* where poffset is already the child's absolute offset and offset the one
\* relative to the component
ChildBound(bound, poffset, offset, size) ==
    <<Max(bound[1], poffset[1]), Max(bound[2], poffset[2]),
      Min(bound[3], Max(offset[1] + size[1], 0)),
      Min(bound[4], Max(offset[2] + size[2], 0))>>

\* if bound.2 != 0.0 && bound.3 != 0.0
BoundDrawn(bound) == bound[3] # 0 /\ bound[4] # 0

\* the closure under way in the innermost component
DrawTop == dr_stack[Len(dr_stack)]

\* the branch the innermost closure is at, and what the closure computes
\* for it
DrawBranch == DrawTop.sized.branches[DrawTop.i]
DrawPoffset == ChildOffset(DrawTop.poffset, DrawBranch[1])
DrawBound == ChildBound(DrawTop.bound, DrawPoffset, DrawBranch[1], DrawBranch[2].size)

\* the frame of component.draw(sized, poffset, bound) at `path`
DrawFrame(sized, poffset, bound, path) ==
    [sized |-> sized, poffset |-> poffset, bound |-> bound, path |-> path, i |-> 1]

\* the innermost closure moved on to the next branch
DrawAdvanced == [dr_stack EXCEPT ![Len(dr_stack)].i = DrawTop.i + 1]

\* what the closure did for the branch it is at
DrawVisit(drawn) ==
    [path |-> Append(DrawTop.path, DrawTop.i), incoming |-> DrawTop.bound,
     poffset |-> DrawPoffset, size |-> DrawBranch[2].size,
     bound |-> DrawBound, drawn |-> drawn]

(* Bounds of the draw model *)
MaxDrawChildren == 2
MaxDrawSize == 4

\* leaves as build places them: before, at and behind the origin of their
\* component, empty on one axis, small, or as large as the root's bound
DrawLeaves ==
    {<<offset, [kind |-> "leaf", size |-> size, branches |-> <<>>]>> :
        offset \in {<<0, 0>>, <<1, 0>>, <<-1, 1>>, <<MaxDrawSize + 1, 0>>},
        size \in {<<0, 2>>, <<2, 2>>, <<MaxDrawSize, MaxDrawSize>>}}

\* components over one leaf
DrawInner ==
    {<<offset, [kind |-> "component", size |-> <<MaxDrawSize, MaxDrawSize>>,
                branches |-> <<leaf>>]>> :
        offset \in {<<0, 0>>, <<1, 0>>}, leaf \in DrawLeaves}

DrawRoots ==
    {[kind |-> "component", size |-> <<MaxDrawSize, MaxDrawSize>>, branches |-> b] :
        b \in UNION {[1..k -> DrawLeaves \cup DrawInner] : k \in 1..MaxDrawChildren}}

\* a sized tree and the bound of the whole surface
InitDraw ==
    /\ dr_sized \in DrawRoots
    /\ dr_bound = <<0, 0, MaxDrawSize, MaxDrawSize>>
    /\ dr_stack = <<>>
    /\ dr_log = <<>>
    /\ dr_out = <<>>
    /\ dr_pc = "new"
    /\ AloneDraw

\* root.draw(&sized, (0.0, 0.0), bound)
DrawCall ==
    /\ dr_pc = "new"
    /\ dr_stack' = <<DrawFrame(dr_sized, <<0, 0>>, dr_bound, <<>>)>>
    /\ dr_pc' = "running"
    /\ UNCHANGED <<dr_sized, dr_bound, dr_log, dr_out, NotDraw>>

\* child.draw(branch, poffset, bound): a leaf returns its one item, a
\* component starts its own flat_map
DrawChild ==
    /\ dr_pc = "running"
    /\ dr_stack # <<>>
    /\ DrawTop.i <= Len(DrawTop.sized.branches)
    /\ BoundDrawn(DrawBound)
    /\ dr_log' = Append(dr_log, DrawVisit(TRUE))
    /\ IF DrawBranch[2].kind = "leaf"
       THEN /\ dr_out' = Append(dr_out, [offset |-> DrawPoffset, bounds |-> Some(DrawBound),
                                         path |-> Append(DrawTop.path, DrawTop.i)])
            /\ dr_stack' = DrawAdvanced
       ELSE /\ dr_out' = dr_out
            /\ dr_stack' = Append(DrawAdvanced,
                                  DrawFrame(DrawBranch[2], DrawPoffset, DrawBound,
                                            Append(DrawTop.path, DrawTop.i)))
    /\ UNCHANGED <<dr_sized, dr_bound, dr_pc, NotDraw>>

\* else {vec![]}
DrawCull ==
    /\ dr_pc = "running"
    /\ dr_stack # <<>>
    /\ DrawTop.i <= Len(DrawTop.sized.branches)
    /\ ~BoundDrawn(DrawBound)
    /\ dr_log' = Append(dr_log, DrawVisit(FALSE))
    /\ dr_stack' = DrawAdvanced
    /\ UNCHANGED <<dr_sized, dr_bound, dr_out, dr_pc, NotDraw>>

\* .collect(): the flat_map of the innermost component is over
DrawReturn ==
    /\ dr_pc = "running"
    /\ dr_stack # <<>>
    /\ DrawTop.i > Len(DrawTop.sized.branches)
    /\ dr_stack' = SubSeq(dr_stack, 1, Len(dr_stack) - 1)
    /\ dr_pc' = IF Len(dr_stack) = 1 THEN "done" ELSE "running"
    /\ UNCHANGED <<dr_sized, dr_bound, dr_log, dr_out, NotDraw>>

NextDraw ==
    \/ DrawCall
    \/ DrawChild
    \/ DrawCull
    \/ DrawReturn

SpecDraw == InitDraw /\ [][NextDraw]_vars

---------------------------------------------------------------------------
(* Properties of draw *)

\* the intersection of the rectangle `bound` = (x, y, width, height) with
\* the rectangle of extent `size` at `poffset`; without area when they do
\* not meet
Intersection(bound, poffset, size) ==
    LET x == Max(bound[1], poffset[1])
        y == Max(bound[2], poffset[2])
        right == Min(bound[1] + bound[3], poffset[1] + size[1])
        bottom == Min(bound[2] + bound[4], poffset[2] + size[2])
    IN  <<x, y, Max(0, right - x), Max(0, bottom - y)>>

\* rectangle a does not extend outside rectangle b
Within(a, b) ==
    /\ b[1] <= a[1] /\ a[1] + a[3] <= b[1] + b[3]
    /\ b[2] <= a[2] /\ a[2] + a[4] <= b[2] + b[4]

\* C24: clip by intersection. In a composite's draw, the clip bound handed
\* to each child is the intersection of the composite's incoming clip bound
\* with that child's placed rectangle (absolute offset and resolved size),
\* so it never extends outside the incoming bound; a child is skipped
\* exactly when that intersection has zero area.
C24_ClipByIntersection ==
    \A k \in DOMAIN dr_log :
        LET v == dr_log[k]
            meet == Intersection(v.incoming, v.poffset, v.size)
        IN  /\ v.drawn <=> (meet[3] # 0 /\ meet[4] # 0)
            /\ v.drawn => (v.bound = meet /\ Within(v.bound, v.incoming))

---------------------------------------------------------------------------
(* One Wrap over several frames, layout.rs 489-515: request_size and build  *)
(* called in any order on the same instance, every call kept in a log.      *)

(* Bounds of the frames model *)
MaxFrameChildren == 2
MaxFrameCalls == 4
MaxFrameWidth == 3

FrameChildLists == UNION {[1..n -> WrapChildren] : n \in 0..MaxFrameChildren}

\* the sizes handed to build: a narrow and a wide one
FrameSizes == {<<Unit, MaxFrameWidth * Unit>>, <<MaxFrameWidth * Unit, MaxFrameWidth * Unit>>}

\* a Wrap as Wrap::start makes it, with any spacing and padding
InitFrames ==
    /\ \E w_spacing \in Spacings, padding \in Paddings :
          wf = [w_spacing |-> w_spacing, h_spacing |-> 0, offset |-> <<"Start">>,
                padding |-> padding, width |-> 0]
    /\ wf_children \in FrameChildLists
    /\ wf_log = <<>>
    /\ wf_pc = "live"
    /\ AloneFrames

\* wrap.request_size(children)
FrRequestSize ==
    /\ wf_pc = "live"
    /\ Len(wf_log) < MaxFrameCalls
    /\ wf_log' = Append(wf_log, [op |-> "request_size",
                                 ret |-> Unwrap(WrapRequestSize(wf, wf_children))])
    /\ UNCHANGED <<wf, wf_children, wf_pc, NotFrames>>

\* wrap.build(maximum_size, children)
FrBuild ==
    /\ wf_pc = "live"
    /\ Len(wf_log) < MaxFrameCalls
    /\ \E maximum_size \in FrameSizes :
          /\ wf' = WrapAfterBuild(wf, maximum_size)
          /\ wf_log' = Append(wf_log, [op |-> "build", size |-> maximum_size,
                                       ret |-> WrapBuild(wf, maximum_size, wf_children).areas])
    /\ UNCHANGED <<wf_children, wf_pc, NotFrames>>

NextFrames ==
    \/ FrRequestSize
    \/ FrBuild

SpecFrames == InitFrames /\ [][NextFrames]_vars

---------------------------------------------------------------------------
(* Properties of a Wrap over several frames *)

\* the width given to the most recent build before call k, 0 before the first
RECURSIVE LastBuildWidth(_)
LastBuildWidth(k) ==
    IF k <= 1 THEN 0
    ELSE IF wf_log[k - 1].op = "build" THEN wf_log[k - 1].size[1]
    ELSE LastBuildWidth(k - 1)

\* the request of the children wrapped at width W
RequestAtWidth(W) == Unwrap(WrapRequestSize([wf EXCEPT !.width = W], wf_children))

\* C25: Wrap two-phase width. Every request_size computes its line breaks
\* against the width given to the most recent build on the same instance,
\* 0 before the first build; a request made between two builds of the same
\* width is therefore the request for the width it is built with next.
C25_TwoPhaseWidth ==
    /\ \A k \in DOMAIN wf_log :
          wf_log[k].op = "request_size" =>
              wf_log[k].ret = RequestAtWidth(LastBuildWidth(k))
    /\ \A k \in DOMAIN wf_log :
          (/\ 1 < k /\ k < Len(wf_log)
           /\ wf_log[k - 1].op = "build"
           /\ wf_log[k].op = "request_size"
           /\ wf_log[k + 1].op = "build"
           /\ wf_log[k - 1].size[1] = wf_log[k + 1].size[1])
          => wf_log[k].ret = RequestAtWidth(wf_log[k + 1].size[1])

\* a resize: the request made before the build at the new width is the one
\* for the old width, the request after it the one for the new width
C25_Witness ==
    /\ Len(wf_log) = 4
    /\ wf_log[1].op = "build" /\ wf_log[2].op = "request_size"
    /\ wf_log[3].op = "build" /\ wf_log[4].op = "request_size"
    /\ wf_log[1].size[1] # wf_log[3].size[1]
    /\ wf_log[2].ret = RequestAtWidth(wf_log[1].size[1])
    /\ wf_log[2].ret # RequestAtWidth(wf_log[3].size[1])
    /\ wf_log[4].ret = RequestAtWidth(wf_log[3].size[1])

\* the first request of an instance wraps at width 0, and differs from the
\* request for the width of the build that follows
C25_WitnessFirst ==
    /\ Len(wf_log) >= 2
    /\ wf_log[1].op = "request_size" /\ wf_log[2].op = "build"
    /\ wf_log[1].ret = RequestAtWidth(0)
    /\ wf_log[1].ret # RequestAtWidth(wf_log[2].size[1])

---------------------------------------------------------------------------
(* Opt, display.rs 38-81: Opt(Stack, Option<D>, Option<D>) is              *)
(* [visible, hidden], self.1 and self.2; the Stack is Stack::default().     *)
(* A drawable is known by its identity.                                     *)

\* Opt::new
OptNew(item, display) ==
    IF display THEN [visible |-> Some(item), hidden |-> None]
    ELSE [visible |-> None, hidden |-> Some(item)]

\* mutant: display moves the slots whatever they hold
OptDisplayUnguarded(o, display) ==
    IF display THEN [visible |-> o.hidden, hidden |-> None]
    ELSE [visible |-> None, hidden |-> o.visible]

\* Opt::display: Option::take leaves None behind
OptDisplay(o, display) ==
    IF display /\ o.visible = None THEN [visible |-> o.hidden, hidden |-> None]
    ELSE IF ~display /\ o.hidden = None THEN [visible |-> None, hidden |-> o.visible]
    ELSE o

\* Opt::inner; None stands for the panic of unwrap
OptInner(o) == IF IsSome(o.visible) THEN o.visible ELSE o.hidden

\* Opt::is_showing
OptIsShowing(o) == IsSome(o.visible)

(* Bounds of the display models *)
MaxDisplayItems == 2
MaxDisplayCalls == 4

\* the drawables put into the containers
DisplayItems == 1..MaxDisplayItems

\* Opt::new(item, display)
InitOpt ==
    /\ \E item \in DisplayItems, display \in BOOLEAN :
          /\ dp = OptNew(item, display)
          /\ dp_calls = <<[op |-> "new", item |-> item, display |-> display]>>
    /\ dp_pc = "live"
    /\ AloneDisplay

\* opt.display(display)
OpDisplay ==
    /\ dp_pc = "live"
    /\ Len(dp_calls) <= MaxDisplayCalls
    /\ \E display \in BOOLEAN :
          /\ dp' = OptDisplay(dp, display)
          /\ dp_calls' = Append(dp_calls, [op |-> "display", display |-> display])
    /\ UNCHANGED <<dp_pc, NotDisplay>>

\* opt.inner()
OpInner ==
    /\ dp_pc = "live"
    /\ Len(dp_calls) <= MaxDisplayCalls
    /\ dp_calls' = Append(dp_calls, [op |-> "inner", ret |-> OptInner(dp)])
    /\ dp_pc' = IF OptInner(dp) = None THEN "panicked" ELSE "live"
    /\ UNCHANGED <<dp, NotDisplay>>

\* opt.is_showing()
OpIsShowing ==
    /\ dp_pc = "live"
    /\ Len(dp_calls) <= MaxDisplayCalls
    /\ dp_calls' = Append(dp_calls, [op |-> "is_showing", ret |-> OptIsShowing(dp)])
    /\ UNCHANGED <<dp, dp_pc, NotDisplay>>

NextOpt ==
    \/ OpDisplay
    \/ OpInner
    \/ OpIsShowing

SpecOpt == InitOpt /\ [][NextOpt]_vars

---------------------------------------------------------------------------
(* Properties of Opt *)

\* the argument of the latest display call before call k, that of new if
\* there was none
RECURSIVE LastDisplay(_)
LastDisplay(k) ==
    IF k <= 2 THEN dp_calls[1].display
    ELSE IF dp_calls[k - 1].op = "display" THEN dp_calls[k - 1].display
    ELSE LastDisplay(k - 1)

\* C28: Opt toggling conserves the item. In every state reachable from
\* Opt::new(item, d) through display calls exactly one of the visible and
\* hidden slots holds the item, is_showing() equals the argument of the most
\* recent display call (d if there was none), a second display with the same
\* argument changes nothing, and inner() returns the item.
C28_OptConserves ==
    LET item == dp_calls[1].item
    IN  /\ dp_pc = "live"
        /\ \/ dp.visible = Some(item) /\ dp.hidden = None
           \/ dp.visible = None /\ dp.hidden = Some(item)
        /\ OptIsShowing(dp) = LastDisplay(Len(dp_calls) + 1)
        /\ OptInner(dp) = Some(item)
        /\ \A b \in BOOLEAN : OptDisplay(OptDisplay(dp, b), b) = OptDisplay(dp, b)
        /\ \A k \in DOMAIN dp_calls :
              /\ dp_calls[k].op = "is_showing" => dp_calls[k].ret = LastDisplay(k)
              /\ dp_calls[k].op = "inner" => dp_calls[k].ret = Some(item)

\* the item was hidden, shown twice in a row, handed out and hidden again
C28_Witness ==
    /\ Len(dp_calls) = 5
    /\ dp_calls[1].display = FALSE
    /\ dp_calls[2].op = "display" /\ dp_calls[2].display
    /\ dp_calls[3].op = "display" /\ dp_calls[3].display
    /\ dp_calls[4].op = "inner"
    /\ dp_calls[5].op = "display" /\ ~dp_calls[5].display
    /\ dp.hidden = Some(dp_calls[1].item)

---------------------------------------------------------------------------
(* EitherOr, display.rs 83-120: EitherOr(Stack, Opt<L>, Opt<R>) is          *)
(* [left, right], self.1 and self.2.                                        *)

\* EitherOr::new
EitherOrNew(left, right) == [left |-> OptNew(left, TRUE), right |-> OptNew(right, FALSE)]

\* mutant: both sides are given the same argument
EitherOrDisplayLeftBoth(e, display_left) ==
    [left |-> OptDisplay(e.left, display_left), right |-> OptDisplay(e.right, display_left)]

\* EitherOr::display_left
EitherOrDisplayLeft(e, display_left) ==
    [left |-> OptDisplay(e.left, display_left), right |-> OptDisplay(e.right, ~display_left)]

\* EitherOr::new(left, right), two drawables
InitEitherOr ==
    /\ \E left \in DisplayItems, right \in DisplayItems :
          /\ dp = EitherOrNew(left, right)
          /\ dp_calls = <<[op |-> "new", left |-> left, right |-> right, display |-> TRUE]>>
    /\ dp_pc = "live"
    /\ AloneDisplay

\* either_or.display_left(display_left)
EoDisplayLeft ==
    /\ dp_pc = "live"
    /\ Len(dp_calls) <= MaxDisplayCalls
    /\ \E display_left \in BOOLEAN :
          /\ dp' = EitherOrDisplayLeft(dp, display_left)
          /\ dp_calls' = Append(dp_calls, [op |-> "display", display |-> display_left])
    /\ UNCHANGED <<dp_pc, NotDisplay>>

\* either_or.left()
EoLeft ==
    /\ dp_pc = "live"
    /\ Len(dp_calls) <= MaxDisplayCalls
    /\ dp_calls' = Append(dp_calls, [op |-> "left", ret |-> OptInner(dp.left)])
    /\ dp_pc' = IF OptInner(dp.left) = None THEN "panicked" ELSE "live"
    /\ UNCHANGED <<dp, NotDisplay>>

\* either_or.right()
EoRight ==
    /\ dp_pc = "live"
    /\ Len(dp_calls) <= MaxDisplayCalls
    /\ dp_calls' = Append(dp_calls, [op |-> "right", ret |-> OptInner(dp.right)])
    /\ dp_pc' = IF OptInner(dp.right) = None THEN "panicked" ELSE "live"
    /\ UNCHANGED <<dp, NotDisplay>>

NextEitherOr ==
    \/ EoDisplayLeft
    \/ EoLeft
    \/ EoRight

SpecEitherOr == InitEitherOr /\ [][NextEitherOr]_vars

---------------------------------------------------------------------------
(* Properties of EitherOr *)

\* C29: EitherOr shows exactly one side. In every state reachable from
\* EitherOr::new(left, right) through display_left calls exactly one of the
\* two sides is showing: the left initially, and after display_left(b) the
\* left if and only if b is true.
C29_ExactlyOneSide ==
    /\ OptIsShowing(dp.left) # OptIsShowing(dp.right)
    /\ OptIsShowing(dp.left) = LastDisplay(Len(dp_calls) + 1)

\* the right side was shown and then the left again
C29_Witness ==
    /\ Len(dp_calls) >= 3
    /\ dp_calls[Len(dp_calls) - 1].op = "display" /\ ~dp_calls[Len(dp_calls) - 1].display
    /\ dp_calls[Len(dp_calls)].op = "display" /\ dp_calls[Len(dp_calls)].display
    /\ OptIsShowing(dp.left) /\ ~OptIsShowing(dp.right)

\* the right side is the one showing
C29_WitnessRight ==
    /\ dp_calls[Len(dp_calls)].op = "display"
    /\ OptIsShowing(dp.right) /\ ~OptIsShowing(dp.left)

---------------------------------------------------------------------------
(* Enum, display.rs 122-174: Enum(Stack, HashMap<String, Opt<..>>, String)  *)
(* is [items, current, keys]: the map as a function on its keys, self.2,    *)
(* and the order in which the HashMap iterates, which the hasher decides    *)
(* and which stays as it is while no key is inserted or removed.  A         *)
(* drawable is known by its position in the list given to Enum::new.        *)

\* the names in the list given to new
ListNames(items) == {items[i] : i \in DOMAIN items}

\* collect::<HashMap<..>>(): a later pair replaces an earlier one of the same name
LastNamed(items, name) ==
    CHOOSE i \in DOMAIN items :
        items[i] = name /\ \A j \in DOMAIN items : j > i => items[j] # name

\* Enum::new(items, start), the HashMap iterating in the order `keys`
EnumNew(items, start, keys) ==
    [items |-> [name \in ListNames(items) |-> OptNew(LastNamed(items, name), name = start)],
     current |-> start,
     keys |-> keys]

\* Enum::display; None stands for the panic of keys().next().unwrap()
EnumDisplay(e, name) ==
    IF name \notin DOMAIN e.items /\ e.keys = <<>> THEN None
    ELSE LET key == IF name \in DOMAIN e.items THEN name ELSE Head(e.keys)
         IN  Some([e EXCEPT !.current = key,
                            !.items = [k \in DOMAIN e.items |-> OptDisplay(e.items[k], k = key)]])

\* Enum::current
EnumCurrent(e) == e.current

\* Enum::drawable; None stands for the panic of get_mut(..).unwrap()
EnumDrawable(e) == IF e.current \in DOMAIN e.items THEN Some(e.items[e.current]) ELSE None

\* the names of the items that are showing
Showing(e) == {name \in DOMAIN e.items : OptIsShowing(e.items[name])}

(* Bounds of the Enum model *)
MaxEnumItems == 2

EnumNames == {"a", "b", "c"}

\* the lists given to new, names only
EnumLists == UNION {[1..n -> EnumNames] : n \in 0..MaxEnumItems}

\* the orders in which a HashMap over `names` can iterate
KeyOrders(names) ==
    {keys \in UNION {[1..n -> names] : n \in 0..MaxEnumItems} :
        /\ ListNames(keys) = names
        /\ \A i, j \in DOMAIN keys : i # j => keys[i] # keys[j]}

\* Enum::new(items, start)
InitEnum ==
    /\ \E items \in EnumLists, start \in EnumNames :
          \E keys \in KeyOrders(ListNames(items)) :
              /\ dp = EnumNew(items, start, keys)
              /\ dp_calls = <<[op |-> "new", items |-> items, start |-> start]>>
    /\ dp_pc = "live"
    /\ AloneDisplay

\* e.display(name)
EnDisplay ==
    /\ dp_pc = "live"
    /\ Len(dp_calls) <= MaxDisplayCalls
    /\ \E name \in EnumNames :
          LET after == EnumDisplay(dp, name)
          IN  IF after = None
              THEN /\ dp' = dp
                   /\ dp_pc' = "panicked"
                   /\ dp_calls' = Append(dp_calls, [op |-> "display", name |-> name,
                                                    panicked |-> TRUE])
              ELSE /\ dp' = Unwrap(after)
                   /\ dp_pc' = "live"
                   /\ dp_calls' = Append(dp_calls, [op |-> "display", name |-> name,
                                                    panicked |-> FALSE,
                                                    current |-> EnumCurrent(Unwrap(after)),
                                                    showing |-> Showing(Unwrap(after))])
    /\ UNCHANGED NotDisplay

\* e.current()
EnCurrent ==
    /\ dp_pc = "live"
    /\ Len(dp_calls) <= MaxDisplayCalls
    /\ dp_calls' = Append(dp_calls, [op |-> "current", ret |-> EnumCurrent(dp)])
    /\ UNCHANGED <<dp, dp_pc, NotDisplay>>

\* e.drawable()
EnDrawable ==
    /\ dp_pc = "live"
    /\ Len(dp_calls) <= MaxDisplayCalls
    /\ dp_calls' = Append(dp_calls, [op |-> "drawable", ret |-> EnumDrawable(dp)])
    /\ dp_pc' = IF EnumDrawable(dp) = None THEN "panicked" ELSE "live"
    /\ UNCHANGED <<dp, NotDisplay>>

NextEnum ==
    \/ EnDisplay
    \/ EnCurrent
    \/ EnDrawable

SpecEnum == InitEnum /\ [][NextEnum]_vars

---------------------------------------------------------------------------
(* Properties of Enum *)

\* the list given to Enum::new
NewItems == dp_calls[1].items

\* C26: Enum missing-key fallback. display(name) with a name that is not
\* among the items of a non-empty Enum does not fail and selects the first
\* element of the list given to Enum::new, making it the shown item and the
\* value of current().
C26_FallbackFirstInserted ==
    \A k \in DOMAIN dp_calls :
        (/\ dp_calls[k].op = "display"
         /\ dp_calls[k].name \notin ListNames(NewItems)
         /\ NewItems # <<>>)
        => /\ ~dp_calls[k].panicked
           /\ dp_calls[k].current = NewItems[1]
           /\ dp_calls[k].showing = {NewItems[1]}

\* C27: Enum shows one item at a time. At most one item is showing; after
\* Enum::new and after every display call exactly one item is showing and
\* it is the one named by current(), and drawable() succeeds.
C27_OneItemShowing ==
    /\ dp_pc = "live"
    /\ Showing(dp) = {EnumCurrent(dp)}
    /\ EnumDrawable(dp) # None
    /\ \A k \in DOMAIN dp_calls : dp_calls[k].op = "drawable" => dp_calls[k].ret # None

---------------------------------------------------------------------------
(* The Button emitter, emitters.rs 17-61 *)

\* event.downcast_ref::<MouseEvent>() is Some
IsMouseEvent(event) == "position" \in DOMAIN event

\* events![event::Button::Pressed(b)], events![event::Button::Hover(b)]
ButtonPressed(b) == <<[type |-> "Button", variant |-> "Pressed", value |-> b]>>
ButtonHover(b) == <<[type |-> "Button", variant |-> "Hover", value |-> b]>>

\* Button::on_event, the arms of the match in their order; is_mobile is
\* crate::IS_MOBILE
ButtonOnEvent(is_mobile, event) ==
    IF ~IsMouseEvent(event) THEN <<event>>
    ELSE IF event.state = "Pressed" /\ IsSome(event.position)
         THEN ButtonPressed(TRUE)
    ELSE IF event.state \in {"Moved", "Scroll"} /\ ~is_mobile
         THEN ButtonHover(IsSome(event.position))
    ELSE IF event.state = "Released"
         THEN IF ~is_mobile /\ IsSome(event.position)
              THEN ButtonHover(TRUE)
              ELSE ButtonPressed(FALSE)
    ELSE <<event>>

\* the events that reach a Button
EmitterEvents == MouseEvents \cup TickEvents \cup KeyboardEvents

\* a Button about to handle an event, in a build for either kind of target
InitButton ==
    /\ bt_mobile \in BOOLEAN
    /\ bt_event \in EmitterEvents
    /\ bt_ret = <<>>
    /\ bt_pc = "call"
    /\ AloneButton

\* button.on_event(ctx, sized, event)
BtOnEvent ==
    /\ bt_pc = "call"
    /\ bt_ret' = ButtonOnEvent(bt_mobile, bt_event)
    /\ bt_pc' = "returned"
    /\ UNCHANGED <<bt_mobile, bt_event, NotButton>>

\* the next event reaches the Button
BtDeliver ==
    /\ bt_pc = "returned"
    /\ bt_event' \in EmitterEvents
    /\ bt_ret' = <<>>
    /\ bt_pc' = "call"
    /\ UNCHANGED <<bt_mobile, NotButton>>

NextButton ==
    \/ BtOnEvent
    \/ BtDeliver

SpecButton == InitButton /\ [][NextButton]_vars

---------------------------------------------------------------------------
(* Properties of the Button emitter *)

\* C30: Button press translation (non-mobile). on_event replaces a
\* MouseEvent with state Pressed by Button::Pressed(true) when its position
\* is Some and by Button::Pressed(false) when its position is None; the raw
\* mouse event is not forwarded in either case.
C30_PressTranslation ==
    (/\ bt_pc = "returned"
     /\ ~bt_mobile
     /\ IsMouseEvent(bt_event)
     /\ bt_event.state = "Pressed")
    => /\ bt_ret = ButtonPressed(IsSome(bt_event.position))
       /\ \A i \in DOMAIN bt_ret : bt_ret[i] # bt_event

---------------------------------------------------------------------------
(* The Slider emitter, emitters.rs 132-159: self.2 is the flag; on_event    *)
(* returns the events and leaves the flag, [flag, ret].                     *)

\* events![event::Slider::Start(x)], events![event::Slider::Moved(x)]
SliderStart(x) == <<[type |-> "Slider", variant |-> "Start", value |-> x]>>
SliderMoved(x) == <<[type |-> "Slider", variant |-> "Moved", value |-> x]>>

\* mutant: a release leaves the flag as it is
SliderOnEventNoRelease(flag, event) ==
    IF "position" \notin DOMAIN event THEN [flag |-> flag, ret |-> <<event>>]
    ELSE IF event.state = "Pressed" /\ event.position # <<>>
         THEN [flag |-> TRUE,
               ret |-> <<[type |-> "Slider", variant |-> "Start", value |-> event.position[1][1]]>>]
    ELSE IF event.state \in {"Scroll", "Moved"} /\ event.position # <<>> /\ flag
         THEN [flag |-> flag,
               ret |-> <<[type |-> "Slider", variant |-> "Moved", value |-> event.position[1][1]]>>]
    ELSE [flag |-> flag, ret |-> <<>>]

\* Slider::on_event, the arms of the match in their order
SliderOnEvent(flag, event) ==
    IF ~IsMouseEvent(event) THEN [flag |-> flag, ret |-> <<event>>]
    ELSE IF event.state = "Pressed" /\ IsSome(event.position)
         THEN [flag |-> TRUE, ret |-> SliderStart(Unwrap(event.position)[1])]
    ELSE IF event.state = "Released"
         THEN [flag |-> FALSE, ret |-> <<>>]
    ELSE IF event.state \in {"Scroll", "Moved"} /\ IsSome(event.position) /\ flag
         THEN [flag |-> flag, ret |-> SliderMoved(Unwrap(event.position)[1])]
    ELSE [flag |-> flag, ret |-> <<>>]

(* Bound of the emitter models *)
MaxEmitterCalls == 3

\* the mouse events that reach an emitter: without position, and at two
\* points with different x
EmitterMouse ==
    [position : {None, Some(<<0, 1>>), Some(<<MaxSize, 0>>)}, state : MouseStates]

\* Slider::new(child), in a build for either kind of target
InitSlider ==
    /\ em_flag = FALSE
    /\ em_mobile \in BOOLEAN
    /\ em_log = <<>>
    /\ em_pc = "live"
    /\ AloneEmitter

\* slider.on_event(ctx, sized, event)
SlOnEvent ==
    /\ em_pc = "live"
    /\ Len(em_log) < MaxEmitterCalls
    /\ \E event \in EmitterMouse \cup TickEvents :
          LET out == SliderOnEvent(em_flag, event)
          IN  /\ em_flag' = out.flag
              /\ em_log' = Append(em_log, [event |-> event, ret |-> out.ret])
    /\ UNCHANGED <<em_mobile, em_pc, NotEmitter>>

NextSlider == SlOnEvent

SpecSlider == InitSlider /\ [][NextSlider]_vars

---------------------------------------------------------------------------
(* Properties of the Slider emitter *)

\* a positioned Pressed was received before call k and no Released since
RECURSIVE Dragging(_)
Dragging(k) ==
    IF k <= 1 THEN FALSE
    ELSE LET e == em_log[k - 1].event
         IN  IF IsMouseEvent(e) /\ e.state = "Released" THEN FALSE
             ELSE IF IsMouseEvent(e) /\ e.state = "Pressed" /\ IsSome(e.position) THEN TRUE
             ELSE Dragging(k - 1)

\* C31: Slider drag tracking. Over any sequence of mouse events the Slider
\* emits Start(x) on each Pressed event that has a position, emits Moved(x)
\* for a positioned Moved/Scroll event if and only if a positioned Pressed
\* has been received since the last Released, emits nothing on Released,
\* and never forwards a raw MouseEvent.
C31_DragTracking ==
    \A k \in DOMAIN em_log :
        LET e == em_log[k].event
            r == em_log[k].ret
        IN  IsMouseEvent(e) =>
               /\ (e.state = "Pressed" /\ IsSome(e.position))
                     => r = SliderStart(Unwrap(e.position)[1])
               /\ e.state = "Released" => r = <<>>
               /\ (e.state \in {"Moved", "Scroll"} /\ IsSome(e.position))
                     => r = IF Dragging(k) THEN SliderMoved(Unwrap(e.position)[1]) ELSE <<>>
               /\ \A i \in DOMAIN r : ~IsMouseEvent(r[i])

\* a drag: press, move while pressed, and a move after the release that is
\* no longer reported
C31_Witness ==
    /\ Len(em_log) = 3
    /\ \A k \in DOMAIN em_log : IsMouseEvent(em_log[k].event)
    /\ em_log[1].event.state = "Pressed" /\ em_log[1].ret # <<>>
    /\ em_log[2].event.state = "Moved" /\ em_log[2].ret = SliderMoved(MaxSize)
    /\ em_log[3].event.state = "Released" /\ em_log[3].ret = <<>>
    /\ ~em_flag

\* a positioned move that is not reported because the last press was released
C31_WitnessIdle ==
    /\ Len(em_log) = 3
    /\ \A k \in DOMAIN em_log : IsMouseEvent(em_log[k].event)
    /\ em_log[1].event.state = "Pressed" /\ em_log[1].ret # <<>>
    /\ em_log[2].event.state = "Released"
    /\ em_log[3].event.state = "Moved" /\ IsSome(em_log[3].event.position)
    /\ em_log[3].ret = <<>>

---------------------------------------------------------------------------
(* The TextInput emitter, emitters.rs 169-210: self.2 is the flag; on_event *)
(* returns the events and leaves the flag, [flag, ret].                     *)

\* Box::new(event::TextInput::Focused(b)), Box::new(event::TextInput::Hover(b))
TextInputFocused(b) == [type |-> "TextInput", variant |-> "Focused", value |-> b]
TextInputHover(b) == [type |-> "TextInput", variant |-> "Hover", value |-> b]

\* event.downcast_ref::<KeyboardEvent>() is Some
IsKeyboardEvent(event) == "key" \in DOMAIN event

\* TextInput::on_event; is_mobile is crate::IS_MOBILE
TextInputOnEvent(is_mobile, flag, event) ==
    IF IsMouseEvent(event)
    THEN IF event.state = "Pressed" /\ IsSome(event.position)
         THEN [flag |-> TRUE, ret |-> <<TextInputFocused(TRUE), event>>]
         ELSE IF event.state = "Pressed"
         THEN IF event.position = None /\ ~is_mobile
              THEN [flag |-> FALSE, ret |-> <<TextInputFocused(FALSE), event>>]
              ELSE [flag |-> flag, ret |-> <<event>>]
         ELSE IF event.state \in {"Moved", "Scroll"} /\ ~is_mobile /\ ~flag
         THEN [flag |-> flag, ret |-> <<TextInputHover(IsSome(event.position)), event>>]
         ELSE [flag |-> flag, ret |-> <<event>>]
    ELSE IF IsKeyboardEvent(event) /\ event.state = "Pressed"
         THEN [flag |-> flag, ret |-> IF flag THEN <<event>> ELSE <<>>]
    ELSE [flag |-> flag, ret |-> <<event>>]

\* the keyboard events that reach an emitter: one key in every KeyboardState
EmitterKeys == [type : {"KeyboardEvent"}, key : {<<"Character", "a">>}, state : KeyboardStates]

\* TextInput::new(child), in a build for either kind of target
InitTextInput ==
    /\ em_flag = FALSE
    /\ em_mobile \in BOOLEAN
    /\ em_log = <<>>
    /\ em_pc = "live"
    /\ AloneEmitter

\* text_input.on_event(ctx, sized, event)
TiOnEvent ==
    /\ em_pc = "live"
    /\ Len(em_log) < MaxEmitterCalls
    /\ \E event \in EmitterMouse \cup EmitterKeys \cup TickEvents :
          LET out == TextInputOnEvent(em_mobile, em_flag, event)
          IN  /\ em_flag' = out.flag
              /\ em_log' = Append(em_log, [event |-> event, ret |-> out.ret])
    /\ UNCHANGED <<em_mobile, em_pc, NotEmitter>>

NextTextInput == TiOnEvent

SpecTextInput == InitTextInput /\ [][NextTextInput]_vars

---------------------------------------------------------------------------
(* Properties of the TextInput emitter *)

\* before call k there was a press inside the bounds and no press outside
\* them since
RECURSIVE Focused(_)
Focused(k) ==
    IF k <= 1 THEN FALSE
    ELSE LET e == em_log[k - 1].event
         IN  IF IsMouseEvent(e) /\ e.state = "Pressed" THEN IsSome(e.position)
             ELSE Focused(k - 1)

\* C32: TextInput keyboard gating. A KeyboardEvent of any KeyboardState is
\* forwarded to the child only while the emitter is focused, that is after a
\* press inside its bounds with no press outside its bounds since; while
\* unfocused every keyboard event is dropped.
C32_KeyboardGating ==
    \A k \in DOMAIN em_log :
        LET e == em_log[k].event
        IN  IsKeyboardEvent(e) =>
                em_log[k].ret = IF Focused(k) THEN <<e>> ELSE <<>>

---------------------------------------------------------------------------
(* Properties of the padding of Row, Column and Stack *)

\* the layout without padding
Unpadded == [ly EXCEPT !.padding = <<0, 0, 0, 0>>]

\* the documented reading of Padding(a, b, c, d): top, left, bottom, right
PaddingTop == ly.padding[1]
PaddingLeft == ly.padding[2]
PaddingBottom == ly.padding[3]
PaddingRight == ly.padding[4]

\* C33: Padding field order. Padding(a, b, c, d) is top = a, left = b,
\* bottom = c, right = d: the request of a layout is the request of the
\* same layout without padding grown by b + d horizontally and a + c
\* vertically, and build places the children as the layout without padding
\* places them in the size that is left, shifted right by b and down by a.
C33_PaddingFieldOrder ==
    /\ ly_pc = "requested" =>
          ly_ret = AndThen(LayoutRequestSize(Unpadded, ly_children),
                           LAMBDA r : SizeRequestAdd(r, PaddingLeft + PaddingRight,
                                                     PaddingTop + PaddingBottom))
    /\ ly_pc = "built" =>
          LET inner == <<ly_size[1] - (PaddingLeft + PaddingRight),
                         ly_size[2] - (PaddingTop + PaddingBottom)>>
              plain == LayoutBuild(Unpadded, inner, ly_children)
          IN  /\ Len(ly_ret) = Len(plain)
              /\ \A i \in DOMAIN ly_ret :
                    /\ ly_ret[i].size = plain[i].size
                    /\ ly_ret[i].offset = <<plain[i].offset[1] + PaddingLeft,
                                            plain[i].offset[2] + PaddingTop>>

---------------------------------------------------------------------------
(* Properties of the scroll shift of Column *)

\* what build returns for the same Column without a scroll cell
Unscrolled == ColumnBuild([col EXCEPT !.scroll = None], col_size, col_children)

\* C34: uniform scroll shift. Within one build of a scrollable Column every
\* child's vertical offset equals the offset it would have without
\* scrolling minus one and the same clamped scroll value, the one the
\* Column holds afterwards; sizes and horizontal offsets are those without
\* scrolling.
C34_UniformScrollShift ==
    (col_pc = "built" /\ IsSome(col.scroll)) =>
        /\ Len(col_ret) = Len(Unscrolled)
        /\ \A i \in DOMAIN col_ret :
              /\ col_ret[i].size = Unscrolled[i].size
              /\ col_ret[i].offset[1] = Unscrolled[i].offset[1]
              /\ col_ret[i].offset[2] = Unscrolled[i].offset[2] - Unwrap(col.scroll)

\* two children moved up by a scroll value that build had to clamp
C34_Witness ==
    /\ col_pc = "built" /\ IsSome(col.scroll)
    /\ ColumnCount = 2
    /\ Unwrap(col.scroll) > 0
    /\ Unwrap(col.scroll) = ContentExtent - AllottedExtent
    /\ col_ret[2].offset[2] - col_ret[1].offset[2]
          = Unscrolled[2].offset[2] - Unscrolled[1].offset[2]
    /\ col_ret[1].offset[2] < Unscrolled[1].offset[2]

---------------------------------------------------------------------------
(* Trees with Option<D> nodes, measured and built as above *)
MaxWrappedChildren == 2

\* one component of each policy around the one child given
Around(candidates) ==
    {[kind |-> "component", layout |-> l, children |-> <<c>>] :
        l \in TreeLayouts, c \in candidates}

\* None, Some(leaf) and Some(component)
Options(candidates) ==
    {[kind |-> "option", inner |-> None]}
        \cup {[kind |-> "option", inner |-> Some(c)] : c \in candidates}

\* a component over leaves, options and components around a leaf or an option
WrappedTrees ==
    LET one == CHOOSE l \in Leaves : l.size[1] = TreeUnit
        low == Leaves \cup Options({one})
    IN  Components(low \cup Around(low) \cup Options(Around({one})), MaxWrappedChildren)

InitWrapped ==
    /\ tr_root \in WrappedTrees
    /\ tr_request = None
    /\ tr_size = <<0, 0>>
    /\ tr_sized = <<>>
    /\ tr_pc = "new"
    /\ AloneTree

SpecWrapped == InitWrapped /\ [][NextTree]_vars

\* the size of every node of the sized tree lies within the request of the
\* node at the same place of the request tree
RECURSIVE Respects(_, _)
Respects(sized, request) ==
    /\ request.request.min_width <= sized.size[1]
    /\ sized.size[1] <= request.request.max_width
    /\ request.request.min_height <= sized.size[2]
    /\ sized.size[2] <= request.request.max_height
    /\ Len(sized.branches) <= Len(request.branches)
    /\ \A i \in DOMAIN sized.branches : Respects(sized.branches[i][2], request.branches[i])

\* C35: resolved sizes respect requests. In the sized tree build produces
\* from the request tree of the same drawable tree, the resolved size of
\* every node, a leaf, an Option or a composite, lies within that node's own
\* request on both axes, whatever size the root is handed.
C35_SizesRespectRequests ==
    tr_pc = "built" => Respects(tr_sized, Unwrap(tr_request))

\* a root handed less than it requested, over a None and a component around
\* a Some that was allotted more than the leaf inside it asks for
C35_Witness ==
    /\ tr_pc = "built"
    /\ tr_size = <<0, 0>>
    /\ tr_sized.size[2] > 0
    /\ Len(tr_root.children) = 2
    /\ tr_root.children[1] = [kind |-> "option", inner |-> None]
    /\ tr_sized.branches[1][2] = SizedTreeDefault
    /\ tr_root.children[2].kind = "component"
    /\ tr_root.children[2].children[1].kind = "option"
    /\ IsSome(tr_root.children[2].children[1].inner)
    /\ Len(tr_sized.branches[2][2].branches) = 1
    /\ tr_sized.branches[2][2].branches[1][2].size = <<TreeUnit, 2 * TreeUnit>>

\* a root handed more than the most it requested
C35_WitnessAbove ==
    /\ tr_pc = "built"
    /\ tr_size[1] > Unwrap(tr_request).request.max_width
    /\ tr_size[2] > Unwrap(tr_request).request.max_height
    /\ \E i \in DOMAIN tr_root.children :
          /\ tr_root.children[i].kind = "option"
          /\ IsSome(tr_root.children[i].inner)
          /\ Unwrap(tr_root.children[i].inner).kind = "component"

---------------------------------------------------------------------------
(* Properties of a positioned MouseEvent on its way down the tree *)

\* every composite of d keeps the default on_event
RECURSIVE AllDefault(_)
AllDefault(d) ==
    d.kind = "leaf"
        \/ (d.handler = "default" /\ \A i \in DOMAIN d.children : AllDefault(d.children[i]))

\* the places of the nodes of d, the root being <<>>
RECURSIVE Paths(_)
Paths(d) ==
    {<<>>} \cup
        (IF d.kind = "leaf" THEN {}
         ELSE UNION {{<<i>> \o p : p \in Paths(d.children[i])} : i \in DOMAIN d.children})

\* the sum of the offsets of the branches from the root of `sized` down `path`
RECURSIVE PathOffset(_, _)
PathOffset(sized, path) ==
    IF path = <<>> THEN <<0, 0>>
    ELSE LET branch == sized.branches[Head(path)]
             rest == PathOffset(branch[2], Tail(path))
         IN  <<branch[1][1] + rest[1], branch[1][2] + rest[2]>>

\* the positions in the log of the calls of event on the node at `path`
Received(path) == {k \in DOMAIN ev_log : ev_log[k].op = "event" /\ ev_log[k].path = path}

Parent(path) == SubSeq(path, 1, Len(path) - 1)

\* the node at `path` was handed a position
GotPosition(path) == \E k \in Received(path) : IsSome(ev_log[k].event.position)

\* C36: positioned hits form a single path. When one positioned MouseEvent
\* is dispatched at the root of a tree whose composites keep the default
\* on_event, a node receives Some only if its parent did, at most one child
\* of a node receives Some, the position a node receives is the root
\* position less the offsets on the way down to it, and every node receives
\* the event exactly once: at most once while the dispatch runs, once when
\* it has returned.
C36_SinglePath ==
    (AllDefault(ev_root) /\ IsMouseEvent(ev_event) /\ IsSome(ev_event.position)) =>
        /\ \A k \in DOMAIN ev_log :
              ev_log[k].op = "event" =>
                  /\ IsMouseEvent(ev_log[k].event)
                  /\ ev_log[k].event.state = ev_event.state
                  /\ Received(ev_log[k].path) = {k}
                  /\ IsSome(ev_log[k].event.position) =>
                        /\ ev_log[k].path # <<>> => GotPosition(Parent(ev_log[k].path))
                        /\ LET down == PathOffset(ev_sized, ev_log[k].path)
                               at == Unwrap(ev_event.position)
                           IN  Unwrap(ev_log[k].event.position)
                                   = <<at[1] - down[1], at[2] - down[2]>>
        /\ \A p \in Paths(ev_root), q \in Paths(ev_root) :
              (/\ p # <<>> /\ q # <<>> /\ Parent(p) = Parent(q)
               /\ GotPosition(p) /\ GotPosition(q)) => p = q
        /\ ev_pc = "done" => \A p \in Paths(ev_root) : Received(p) # {}

\* the point lies over both children of the root; the upper one, a composite
\* at a nonzero offset, and the leaf in it got the position, the lower one
\* got None
C36_Witness ==
    /\ ev_pc = "done"
    /\ AllDefault(ev_root) /\ IsMouseEvent(ev_event)
    /\ ev_event.position = Some(<<2, 2>>)
    /\ Len(ev_root.children) = 2
    /\ ev_root.children[2].kind = "component"
    /\ Len(ev_root.children[2].children) = 1
    /\ \E k \in Received(<<2, 1>>) : ev_log[k].event.position = Some(<<1, 1>>)
    /\ \E k \in Received(<<1>>) : ev_log[k].event.position = None
    /\ PathOffset(ev_sized, <<2, 1>>) = <<1, 1>>

---------------------------------------------------------------------------
(* UniformExpand::get on an empty list, on which Row::build and Column::build *)
(* of a layout without children rest                                          *)

\* C37: Row and Column require at least one child. UniformExpand::get (and
\* therefore Row::build and Column::build) called with an empty list
\* produces no result, because n - 1 on the unsigned count underflows: the
\* call never returns, and so never returns an empty placement.
C37_EmptyListNoResult ==
    Len(ue_items) = 0 => ue_pc # "returned"

---------------------------------------------------------------------------
(* Properties of the edges of an Area in MouseEvent::pass *)

\* the point lies on one of the four edge lines of the Area
OnEdge(p, a) ==
    \/ p[1] = a.offset[1]
    \/ p[1] = a.offset[1] + a.size[1]
    \/ p[2] = a.offset[2]
    \/ p[2] = a.offset[2] + a.size[2]

\* the children the point lies on an edge of, and those without width or height
EdgeChildren ==
    IF IsSome(me_event.position)
    THEN {i \in DOMAIN me_children : OnEdge(Unwrap(me_event.position), me_children[i])}
    ELSE {}
FlatChildren ==
    {i \in DOMAIN me_children : me_children[i].size[1] = 0 \/ me_children[i].size[2] = 0}

\* C38: hit containment is strict. A point exactly on an edge of a child's
\* Area is not inside that child, so a child of zero width or zero height is
\* never matched, and such a point falls through to the next lower sibling
\* that strictly contains it, or to no child.
C38_StrictContainment ==
    Returned =>
        /\ Positioned \cap EdgeChildren = {}
        /\ Positioned \cap FlatChildren = {}
        /\ \A i \in EdgeChildren :
              LET lower == {j \in Hits : j < i}
              IN  (lower # {} /\ \A k \in Hits : k <= i) =>
                      Positioned = {CHOOSE j \in lower : \A k \in lower : k <= j}
        /\ (IsSome(me_event.position) /\ Hits = {}) => Positioned = {}

\* the point is on the corner of the upper child and inside the lower one,
\* which got it
C38_Witness ==
    /\ Returned
    /\ Len(me_children) = 2
    /\ me_event.position = Some(<<MaxOff, MaxOff>>)
    /\ me_children[2] = [offset |-> <<MaxOff, MaxOff>>, size |-> <<MaxSize, MaxSize>>]
    /\ me_children[1] = [offset |-> <<0, 0>>, size |-> <<MaxSize, MaxSize>>]
    /\ EdgeChildren = {2}
    /\ Positioned = {1}

\* a child without width around whose line the point lies: nobody is matched
C38_WitnessFlat ==
    /\ Returned
    /\ Len(me_children) = 1
    /\ me_children[1].size = <<0, MaxSize>>
    /\ IsSome(me_event.position)
    /\ Unwrap(me_event.position)[1] = me_children[1].offset[1]
    /\ me_children[1].offset[2] < Unwrap(me_event.position)[2]
    /\ Unwrap(me_event.position)[2] < me_children[1].offset[2] + MaxSize
    /\ Positioned = {}

---------------------------------------------------------------------------
(* An Opt as a node of the tree, display.rs 38-72: a component whose layout  *)
(* is Stack::default(), whose only child is field 1, an Option<D>, and whose *)
(* on_event is the default.  draw and event are those of drawable.rs 70-88   *)
(* and 159-182, computed in one piece.                                        *)

\* Stack::default(): the derived Default of every field
StackDefault == StackNew(<<"Start">>, <<"Start">>, <<"Fit">>, <<"Fit">>, <<0, 0, 0, 0>>)

\* mutant: children() lists both fields
OptTreeBothFields(o) ==
    [kind |-> "component", layout |-> StackDefault,
     children |-> <<[kind |-> "option", inner |-> o.visible],
                    [kind |-> "option", inner |-> o.hidden]>>]

\* the drawable an Opt is: children() is vec![&self.1]
OptTree(o) ==
    [kind |-> "component", layout |-> StackDefault,
     children |-> <<[kind |-> "option", inner |-> o.visible]>>]

\* Drawable::draw: the primitives returned, in order.  A leaf returns one
\* primitive, None returns none, a component those of its children whose
\* bound has an extent on both axes.
RECURSIVE DrawableDraw(_, _, _, _)
RECURSIVE DrawChildren(_, _, _, _, _)
DrawableDraw(d, sized, poffset, bound) ==
    IF d.kind = "leaf" THEN <<[offset |-> poffset, bounds |-> bound, item |-> d]>>
    ELSE IF d.kind = "option"
    THEN IF IsSome(d.inner) THEN DrawableDraw(Unwrap(d.inner), sized, poffset, bound) ELSE <<>>
    ELSE DrawChildren(d, sized, poffset, bound, 1)

\* sized.1.iter().zip(self.children()).flat_map(..) from the pair i on
DrawChildren(d, sized, poffset, bound, i) ==
    IF i > Min(Len(sized.branches), Len(d.children)) THEN <<>>
    ELSE LET branch == sized.branches[i]
             child_offset == ChildOffset(poffset, branch[1])
             child_bound == ChildBound(bound, child_offset, branch[1], branch[2].size)
         IN  (IF BoundDrawn(child_bound)
              THEN DrawableDraw(d.children[i], branch[2], child_offset, child_bound)
              ELSE <<>>)
                 \o DrawChildren(d, sized, poffset, bound, i + 1)

\* Drawable::event on a tree whose components keep the default on_event: the
\* drawables other than components and Options that are reached, in order,
\* each with the event it is handed
RECURSIVE DrawableEvent(_, _, _)
RECURSIVE EventChildren(_, _, _, _)
DrawableEvent(d, sized, event) ==
    IF d.kind = "leaf" THEN <<[item |-> d, event |-> event]>>
    ELSE IF d.kind = "option"
    THEN IF IsSome(d.inner) THEN DrawableEvent(Unwrap(d.inner), sized, event) ELSE <<>>
    ELSE EventChildren(d, sized, EventPass(event, ChildAreas(sized)), 1)

\* event.pass(..).into_iter().zip(self.children_mut()).zip(sized.1.iter())
\* from the triple i on
EventChildren(d, sized, entries, i) ==
    IF i > ZipLen(entries, d.children, sized.branches) THEN <<>>
    ELSE (IF IsSome(entries[i])
          THEN DrawableEvent(d.children[i], sized.branches[i][2], Unwrap(entries[i]))
          ELSE <<>>)
             \o EventChildren(d, sized, entries, i + 1)

(* Bound of the Opt model: the sizes build is handed reach MaxOptSize tree units *)
MaxOptSize == 3

\* nothing, less than either leaf asks for, and more
OptSizes == {<<0, 0>>, <<TreeUnit, TreeUnit>>, <<MaxOptSize * TreeUnit, MaxOptSize * TreeUnit>>}

\* the bounds draw is handed: none, and all of the largest size
OptBounds == {<<0, 0, 0, 0>>, <<0, 0, MaxOptSize * TreeUnit, MaxOptSize * TreeUnit>>}

\* a press inside either leaf, one without position, and a tick
OptEvents ==
    [position : {None, Some(<<Unit, Unit>>)}, state : {"Pressed"}] \cup TickEvents

\* Opt::new(item, display)
InitOptTree ==
    /\ \E item \in Leaves, display \in BOOLEAN :
          /\ ot = OptNew(item, display)
          /\ ot_new = [item |-> item, display |-> display]
    /\ ot_request = None
    /\ ot_sized = None
    /\ ot_drawn = <<>>
    /\ ot_reached = <<>>
    /\ ot_op = "new"
    /\ AloneOptTree

\* opt.display(display)
OtDisplay ==
    /\ \E display \in BOOLEAN : ot' = OptDisplay(ot, display)
    /\ ot_op' = "display"
    /\ UNCHANGED <<ot_new, ot_request, ot_sized, ot_drawn, ot_reached, NotOptTree>>

\* opt.request_size()
OtRequestSize ==
    /\ ot_request' = DrawableRequestSize(OptTree(ot))
    /\ ot_op' = "request_size"
    /\ UNCHANGED <<ot, ot_new, ot_sized, ot_drawn, ot_reached, NotOptTree>>

\* opt.build(size, request) on the last request tree
OtBuild ==
    /\ IsSome(ot_request)
    /\ \E size \in OptSizes :
          ot_sized' = Some(DrawableBuild(OptTree(ot), size, Unwrap(ot_request)).sized)
    /\ ot_op' = "build"
    /\ UNCHANGED <<ot, ot_new, ot_request, ot_drawn, ot_reached, NotOptTree>>

\* opt.draw(&sized, (0.0, 0.0), bound) on the last sized tree
OtDraw ==
    /\ IsSome(ot_sized)
    /\ \E bound \in OptBounds :
          ot_drawn' = DrawableDraw(OptTree(ot), Unwrap(ot_sized), <<0, 0>>, bound)
    /\ ot_op' = "draw"
    /\ UNCHANGED <<ot, ot_new, ot_request, ot_sized, ot_reached, NotOptTree>>

\* opt.event(ctx, &sized, event) on the last sized tree
OtEvent ==
    /\ IsSome(ot_sized)
    /\ \E event \in OptEvents :
          ot_reached' = DrawableEvent(OptTree(ot), Unwrap(ot_sized), event)
    /\ ot_op' = "event"
    /\ UNCHANGED <<ot, ot_new, ot_request, ot_sized, ot_drawn, NotOptTree>>

NextOptTree ==
    \/ OtDisplay
    \/ OtRequestSize
    \/ OtBuild
    \/ OtDraw
    \/ OtEvent

SpecOptTree == InitOptTree /\ [][NextOptTree]_vars

---------------------------------------------------------------------------
(* Properties of the Opt in the tree *)

\* the last sized tree is one build returns for the Opt as it is now, from
\* its present request
BuiltAsIs ==
    /\ IsSome(ot_sized)
    /\ \E size \in OptSizes :
          Unwrap(ot_sized)
              = DrawableBuild(OptTree(ot), size, Unwrap(DrawableRequestSize(OptTree(ot)))).sized

\* C39: a hidden Opt item is outside the tree protocol. While is_showing()
\* is false the Opt requests the zero size, its draw emits no primitive and
\* no event dispatched to the Opt, positioned or not, reaches the item,
\* whatever request and sized tree the calls are handed; while it is true,
\* also after a display(true) on a hidden Opt, the item is measured (the
\* Opt requests the item's size), drawn once the Opt is measured and built
\* again, and handed every event.
C39_HiddenOutsideProtocol ==
    /\ (~OptIsShowing(ot) /\ ot_op = "request_size") =>
          Unwrap(ot_request) = [request |-> SizeRequestDefault,
                                branches |-> <<RequestTreeDefault>>]
    /\ (~OptIsShowing(ot) /\ ot_op = "draw") => ot_drawn = <<>>
    /\ (~OptIsShowing(ot) /\ ot_op = "event") => ot_reached = <<>>
    /\ (OptIsShowing(ot) /\ ot_op = "request_size") =>
          Unwrap(ot_request).request = SizeRequestFixed(ot_new.item.size)
    /\ (OptIsShowing(ot) /\ ot_op = "draw" /\ BuiltAsIs) =>
          \/ /\ Len(ot_drawn) = 1
             /\ ot_drawn[1].item = ot_new.item
             /\ ot_drawn[1].offset = <<0, 0>>
          \/ ot_drawn = <<>> /\ \A b \in OptBounds : b[3] # 0 =>
                ot_drawn # DrawableDraw(OptTree(ot), Unwrap(ot_sized), <<0, 0>>, b)
    /\ (OptIsShowing(ot) /\ ot_op = "event") =>
          /\ Len(ot_reached) = 1
          /\ ot_reached[1].item = ot_new.item

\* an Opt that was showing, measured and built, then hidden: drawn with the
\* sized tree of before, with room in the bound, it emits nothing
C39_Witness ==
    /\ ot_new.display
    /\ ~OptIsShowing(ot)
    /\ ot_op = "draw"
    /\ Unwrap(ot_sized).branches[1][2].size = ot_new.item.size
    /\ Unwrap(ot_request).request = SizeRequestFixed(ot_new.item.size)
    /\ ot_drawn = <<>>

\* hidden, and a positioned press over where the item was reaches nothing
C39_WitnessEvent ==
    /\ ~OptIsShowing(ot)
    /\ ot_op = "event"
    /\ Unwrap(ot_sized).branches[1][2].size = ot_new.item.size
    /\ ot_reached = <<>>

\* an Opt made hidden, then shown, measured and built: the item is drawn,
\* and gets the press with its position
C39_WitnessShown ==
    /\ ~ot_new.display
    /\ OptIsShowing(ot)
    /\ BuiltAsIs
    /\ Len(ot_drawn) = 1 /\ ot_drawn[1].item = ot_new.item
    /\ ot_op = "event"
    /\ ot_reached = <<[item |-> ot_new.item,
                       event |-> [position |-> Some(<<Unit, Unit>>), state |-> "Pressed"]]>>

====
